---- MODULE Spec2Model ----
(***************************************************************************)
(* Dumpling AI MCP server: a stdio tool server whose every tool validates  *)
(* its arguments, sends one HTTP POST upstream and republishes the JSON    *)
(* reply.  The repository holds four revisions of the server program:      *)
(*   "index_ts_1"  src/src/index.ts lines 1-1065    (27 tools)             *)
(*   "index_ts_2"  src/src/index.ts lines 1067-1624 (7 tools)              *)
(*   "part_000"    src/unnamed/part_000             (28 tools)             *)
(*   "part_001"    src/unnamed/part_001             (28 tools)             *)
(* The model runs one of them (variable build) as a process: startup,      *)
(* tool listing and tool invocations whose asynchronous steps interleave.  *)
(***************************************************************************)
EXTENDS Integers, Sequences, FiniteSets, TLC

(***************************************************************************)
(* Bounds of the model.                                                    *)
(***************************************************************************)
\* invocations the host may have outstanding at once (scenario "concurrent")
MaxCalls == 2
\* optional arguments the host may vary at once (scenario "single")
MaxDeviations == 1
\* elements of the longest array argument the host sends
MaxArr == 2

(***************************************************************************)
(* Program constants.                                                      *)
(***************************************************************************)
\* substring(0, 100): length of a base64 preview
PreviewLen == 100

(***************************************************************************)
(* JavaScript values, tagged by typeof-like kind.                          *)
(***************************************************************************)
Undef   == [k |-> "undefined"]
Null    == [k |-> "null"]
Str(s)  == [k |-> "string", s |-> s]
Num(n)  == [k |-> "number", n |-> n]
Bool(b) == [k |-> "boolean", b |-> b]
Arr(a)  == [k |-> "array", a |-> a]
Obj(o)  == [k |-> "object", o |-> o]
EmptyObj == Obj([x \in {} |-> x])

\* v.key for a value that is neither undefined nor null
Prop(v, key) ==
    IF v.k = "object" /\ key \in DOMAIN v.o THEN v.o[key] ELSE Undef

\* v.key throws a TypeError on undefined and null
Nullish(v) == v.k \in {"undefined", "null"}

\* ToBoolean(v), as used by !x, x && y and x ? y : z
Truthy(v) ==
    CASE v.k = "undefined" -> FALSE
      [] v.k = "null"      -> FALSE
      [] v.k = "string"    -> v.s # ""
      [] v.k = "number"    -> v.n # 0
      [] v.k = "boolean"   -> v.b
      [] OTHER             -> TRUE

\* s.substring(0, n)
Substring0(s, n) == SubSeq(s, 1, IF n < Len(s) THEN n ELSE Len(s))

\* String(n) for a non-negative integer, as in a template literal
RECURSIVE NumToStr(_)
NumToStr(n) ==
    LET digits == <<"0", "1", "2", "3", "4", "5", "6", "7", "8", "9">>
    IN  IF n < 10 THEN digits[n + 1]
        ELSE NumToStr(n \div 10) \o digits[(n % 10) + 1]

\* JSON.stringify: a property whose value is undefined is left out, an
\* undefined array element becomes null
RECURSIVE JsonNorm(_)
JsonNorm(v) ==
    CASE v.k = "object" ->
           LET keep == {f \in DOMAIN v.o : v.o[f].k # "undefined"}
           IN  Obj([f \in keep |-> JsonNorm(v.o[f])])
      [] v.k = "array" ->
           Arr([i \in 1..Len(v.a) |->
                   IF v.a[i].k = "undefined" THEN Null ELSE JsonNorm(v.a[i])])
      [] OTHER -> v

\* JSON.stringify(v, null, 2): the text of the normalised value (w is the
\* value of v, evaluated once)
Stringify(v) ==
    CHOOSE text \in {[fmt |-> "json", indent |-> 2, value |-> JsonNorm(w)] : w \in {v}} :
       TRUE

(***************************************************************************)
(* zod schemas: the declarations of the tools and safeParse on them.       *)
(***************************************************************************)
ZString  == [t |-> "string", checks |-> <<>>]
ZNumber  == [t |-> "number", checks |-> <<>>]
ZBoolean == [t |-> "boolean"]
ZAny     == [t |-> "any"]
ZEnum(vals)    == [t |-> "enum", vals |-> vals]
ZObject(shape) == [t |-> "object", shape |-> shape]
ZArray(elem)   == [t |-> "array", elem |-> elem]
ZRecord(elem)  == [t |-> "record", elem |-> elem]
Url(d)         == [d EXCEPT !.checks = Append(@, [op |-> "url", n |-> 0])]
Min(d, n)      == [d EXCEPT !.checks = Append(@, [op |-> "min", n |-> n])]
Max(d, n)      == [d EXCEPT !.checks = Append(@, [op |-> "max", n |-> n])]
Optional(d)    == [t |-> "optional", inner |-> d]
Default(d, v)  == [t |-> "default", inner |-> d, def |-> v]

\* z.string().url(): the text parses as an absolute URL
IsUrl(s) ==
    \/ Len(s) > 7 /\ SubSeq(s, 1, 7) = "http://"
    \/ Len(s) > 8 /\ SubSeq(s, 1, 8) = "https://"

CheckOk(c, v) ==
    CASE c.op = "url" -> IsUrl(v.s)
      [] c.op = "min" -> v.n >= c.n
      [] c.op = "max" -> v.n <= c.n

Parsed(v) == [ok |-> TRUE, val |-> v]
Invalid   == [ok |-> FALSE, val |-> Undef]

\* schema.safeParse(v): the parsed value, with defaults substituted and
\* undeclared keys of an object stripped, or a failure
RECURSIVE SafeParse(_, _)
SafeParse(d, v) ==
    CASE d.t = "default" ->
           IF v.k = "undefined" THEN Parsed(d.def) ELSE SafeParse(d.inner, v)
      [] d.t = "optional" ->
           IF v.k = "undefined" THEN Parsed(Undef) ELSE SafeParse(d.inner, v)
      [] d.t = "string" ->
           IF v.k = "string" /\ \A i \in 1..Len(d.checks) : CheckOk(d.checks[i], v)
           THEN Parsed(v) ELSE Invalid
      [] d.t = "number" ->
           IF v.k = "number" /\ \A i \in 1..Len(d.checks) : CheckOk(d.checks[i], v)
           THEN Parsed(v) ELSE Invalid
      [] d.t = "boolean" -> IF v.k = "boolean" THEN Parsed(v) ELSE Invalid
      [] d.t = "any" -> Parsed(v)
      [] d.t = "enum" ->
           IF v.k = "string" /\ v.s \in d.vals THEN Parsed(v) ELSE Invalid
      [] d.t = "array" ->
           IF v.k = "array" /\ \A i \in 1..Len(v.a) : SafeParse(d.elem, v.a[i]).ok
           THEN Parsed(Arr([i \in 1..Len(v.a) |-> SafeParse(d.elem, v.a[i]).val]))
           ELSE Invalid
      [] d.t = "record" ->
           IF v.k = "object" /\ \A f \in DOMAIN v.o : SafeParse(d.elem, v.o[f]).ok
           THEN Parsed(Obj([f \in DOMAIN v.o |-> SafeParse(d.elem, v.o[f]).val]))
           ELSE Invalid
      [] d.t = "object" ->
           IF v.k = "object"
              /\ \A f \in DOMAIN d.shape : SafeParse(d.shape[f], Prop(v, f)).ok
           THEN LET set == {f \in DOMAIN d.shape :
                               \/ f \in DOMAIN v.o
                               \/ SafeParse(d.shape[f], Undef).val.k # "undefined"}
                IN  Parsed(Obj([f \in set |-> SafeParse(d.shape[f], Prop(v, f)).val]))
           ELSE Invalid

(***************************************************************************)
(* The tools each revision registers: schema, cross-field precondition,    *)
(* upstream path, request body, error texts and response shaper.           *)
(***************************************************************************)
NWS_API_BASE == "https://app.dumplingai.com"

\* one property of the object literal passed to JSON.stringify as the body:
\* src "arg" is a handler argument, "const" a string literal, "first" the
\* element [0] of an array argument
Field(key, src, arg) == [key |-> key, src |-> src, arg |-> arg]

\* one property of the object literal a handler returns as its result:
\* "get" data.x, "cond" ...(data.x && {x: data.x}),
\* "trunc" data.x.substring(0, 100) + "...",
\* "truncOrNull" data.x ? data.x.substring(0, 100) + "..." : null,
\* "organic" data.organic.map(...), "images" data.images.map(...)
Entry(key, op, from) == [key |-> key, op |-> op, from |-> from]

A_get_youtube_transcript ==
    [ name    |-> "get-youtube-transcript",
      schema  |-> ZObject([
                   videoUrl |-> Url(ZString),
                   includeTimestamps |-> Default(Optional(ZBoolean), Bool(TRUE)),
                   timestampsToCombine |-> Default(Optional(ZNumber), Num(5)),
                   preferredLanguage |-> Default(Optional(ZString), Str("en"))]),
      alts    |-> <<>>,
      altKind |-> "none",
      altMsg  |-> "",
      keyMsg  |-> "DUMPLING_API_KEY not set",
      path    |-> "/api/v1/get-youtube-transcript",
      body    |-> <<Field("videoUrl", "arg", "videoUrl"), Field("includeTimestamps", "arg", "includeTimestamps"), Field("timestampsToCombine", "arg", "timestampsToCombine"), Field("preferredLanguage", "arg", "preferredLanguage")>>,
      failMsg |-> "Failed: ",
      logs    |-> FALSE,
      logMsg  |-> "",
      shaper  |-> "whole",
      shape   |-> <<>> ]

A_search ==
    [ name    |-> "search",
      schema  |-> ZObject([
                   query |-> ZString,
                   country |-> Optional(ZString),
                   location |-> Optional(ZString),
                   language |-> Optional(ZString),
                   dateRange |-> Optional(ZEnum({"anyTime", "pastHour", "pastDay", "pastWeek", "pastMonth", "pastYear"})),
                   page |-> Optional(ZNumber),
                   scrapeResults |-> Optional(ZBoolean),
                   numResultsToScrape |-> Optional(ZNumber),
                   scrapeOptions |-> Optional(ZObject([format |-> Optional(ZEnum({"markdown", "html", "screenshot"})), cleaned |-> Optional(ZBoolean)]))]),
      alts    |-> <<>>,
      altKind |-> "none",
      altMsg  |-> "",
      keyMsg  |-> "DUMPLING_API_KEY not set",
      path    |-> "/api/v1/search",
      body    |-> <<Field("query", "arg", "query"), Field("country", "arg", "country"), Field("location", "arg", "location"), Field("language", "arg", "language"), Field("dateRange", "arg", "dateRange"), Field("page", "arg", "page"), Field("scrapeResults", "arg", "scrapeResults"), Field("numResultsToScrape", "arg", "numResultsToScrape"), Field("scrapeOptions", "arg", "scrapeOptions")>>,
      failMsg |-> "Failed: ",
      logs    |-> FALSE,
      logMsg  |-> "",
      shaper  |-> "whole",
      shape   |-> <<>> ]

A_get_autocomplete ==
    [ name    |-> "get-autocomplete",
      schema  |-> ZObject([
                   query |-> ZString,
                   location |-> Optional(ZString),
                   country |-> Optional(ZString),
                   language |-> Optional(ZString)]),
      alts    |-> <<>>,
      altKind |-> "none",
      altMsg  |-> "",
      keyMsg  |-> "DUMPLING_API_KEY not set",
      path    |-> "/api/v1/get-autocomplete",
      body    |-> <<Field("query", "arg", "query"), Field("location", "arg", "location"), Field("country", "arg", "country"), Field("language", "arg", "language")>>,
      failMsg |-> "Failed: ",
      logs    |-> FALSE,
      logMsg  |-> "",
      shaper  |-> "whole",
      shape   |-> <<>> ]

A_search_maps ==
    [ name    |-> "search-maps",
      schema  |-> ZObject([
                   query |-> ZString,
                   gpsPositionZoom |-> Optional(ZString),
                   placeId |-> Optional(ZString),
                   cid |-> Optional(ZString),
                   language |-> Optional(ZString),
                   page |-> Optional(ZNumber)]),
      alts    |-> <<>>,
      altKind |-> "none",
      altMsg  |-> "",
      keyMsg  |-> "DUMPLING_API_KEY not set",
      path    |-> "/api/v1/search-maps",
      body    |-> <<Field("query", "arg", "query"), Field("gpsPositionZoom", "arg", "gpsPositionZoom"), Field("placeId", "arg", "placeId"), Field("cid", "arg", "cid"), Field("language", "arg", "language"), Field("page", "arg", "page")>>,
      failMsg |-> "Failed: ",
      logs    |-> FALSE,
      logMsg  |-> "",
      shaper  |-> "whole",
      shape   |-> <<>> ]

A_search_places ==
    [ name    |-> "search-places",
      schema  |-> ZObject([
                   query |-> ZString,
                   country |-> Optional(ZString),
                   location |-> Optional(ZString),
                   language |-> Optional(ZString),
                   page |-> Optional(ZNumber)]),
      alts    |-> <<>>,
      altKind |-> "none",
      altMsg  |-> "",
      keyMsg  |-> "DUMPLING_API_KEY not set",
      path    |-> "/api/v1/search-places",
      body    |-> <<Field("query", "arg", "query"), Field("country", "arg", "country"), Field("location", "arg", "location"), Field("language", "arg", "language"), Field("page", "arg", "page")>>,
      failMsg |-> "Failed: ",
      logs    |-> FALSE,
      logMsg  |-> "",
      shaper  |-> "whole",
      shape   |-> <<>> ]

A_search_news ==
    [ name    |-> "search-news",
      schema  |-> ZObject([
                   query |-> ZString,
                   country |-> Optional(ZString),
                   location |-> Optional(ZString),
                   language |-> Optional(ZString),
                   dateRange |-> Optional(ZEnum({"anyTime", "pastHour", "pastDay", "pastWeek", "pastMonth", "pastYear"})),
                   page |-> Optional(ZNumber)]),
      alts    |-> <<>>,
      altKind |-> "none",
      altMsg  |-> "",
      keyMsg  |-> "DUMPLING_API_KEY not set",
      path    |-> "/api/v1/search-news",
      body    |-> <<Field("query", "arg", "query"), Field("country", "arg", "country"), Field("location", "arg", "location"), Field("language", "arg", "language"), Field("dateRange", "arg", "dateRange"), Field("page", "arg", "page")>>,
      failMsg |-> "Failed: ",
      logs    |-> FALSE,
      logMsg  |-> "",
      shaper  |-> "whole",
      shape   |-> <<>> ]

A_get_google_reviews ==
    [ name    |-> "get-google-reviews",
      schema  |-> ZObject([
                   keyword |-> Optional(ZString),
                   cid |-> Optional(ZString),
                   placeId |-> Optional(ZString),
                   reviews |-> Default(Optional(ZNumber), Num(10)),
                   sortBy |-> Default(Optional(ZEnum({"relevant", "newest", "highest_rating", "lowest_rating"})), Str("relevant")),
                   language |-> Default(Optional(ZString), Str("en")),
                   location |-> Default(Optional(ZString), Str("London,England,United Kingdom"))]),
      alts    |-> <<"keyword", "cid", "placeId">>,
      altKind |-> "truthy",
      altMsg  |-> "Either keyword, cid, or placeId is required",
      keyMsg  |-> "DUMPLING_API_KEY not set",
      path    |-> "/api/v1/get-google-reviews",
      body    |-> <<Field("keyword", "arg", "keyword"), Field("cid", "arg", "cid"), Field("placeId", "arg", "placeId"), Field("reviews", "arg", "reviews"), Field("sortBy", "arg", "sortBy"), Field("language", "arg", "language"), Field("location", "arg", "location")>>,
      failMsg |-> "Failed: ",
      logs    |-> FALSE,
      logMsg  |-> "",
      shaper  |-> "whole",
      shape   |-> <<>> ]

A_scrape ==
    [ name    |-> "scrape",
      schema  |-> ZObject([
                   url |-> Url(ZString),
                   format |-> Optional(ZEnum({"markdown", "html", "screenshot"})),
                   cleaned |-> Optional(ZBoolean),
                   renderJs |-> Default(Optional(ZBoolean), Bool(TRUE))]),
      alts    |-> <<>>,
      altKind |-> "none",
      altMsg  |-> "",
      keyMsg  |-> "DUMPLING_API_KEY not set",
      path    |-> "/api/v1/scrape",
      body    |-> <<Field("url", "arg", "url"), Field("format", "arg", "format"), Field("cleaned", "arg", "cleaned"), Field("renderJs", "arg", "renderJs")>>,
      failMsg |-> "Failed: ",
      logs    |-> FALSE,
      logMsg  |-> "",
      shaper  |-> "whole",
      shape   |-> <<>> ]

A_crawl ==
    [ name    |-> "crawl",
      schema  |-> ZObject([
                   url |-> Url(ZString),
                   limit |-> Default(Optional(ZNumber), Num(5)),
                   depth |-> Default(Optional(ZNumber), Num(2)),
                   format |-> Default(Optional(ZEnum({"markdown", "text", "raw"})), Str("markdown"))]),
      alts    |-> <<>>,
      altKind |-> "none",
      altMsg  |-> "",
      keyMsg  |-> "DUMPLING_API_KEY not set",
      path    |-> "/api/v1/crawl",
      body    |-> <<Field("url", "arg", "url"), Field("limit", "arg", "limit"), Field("depth", "arg", "depth"), Field("format", "arg", "format")>>,
      failMsg |-> "Failed: ",
      logs    |-> FALSE,
      logMsg  |-> "",
      shaper  |-> "whole",
      shape   |-> <<>> ]

A_extract ==
    [ name    |-> "extract",
      schema  |-> ZObject([
                   url |-> Url(ZString),
                   schema |-> ZRecord(ZAny)]),
      alts    |-> <<>>,
      altKind |-> "none",
      altMsg  |-> "",
      keyMsg  |-> "DUMPLING_API_KEY not set",
      path    |-> "/api/v1/extract",
      body    |-> <<Field("url", "arg", "url"), Field("schema", "arg", "schema")>>,
      failMsg |-> "Failed: ",
      logs    |-> FALSE,
      logMsg  |-> "",
      shaper  |-> "whole",
      shape   |-> <<>> ]

A_screenshot ==
    [ name    |-> "screenshot",
      schema  |-> ZObject([
                   url |-> Url(ZString),
                   width |-> Optional(ZNumber),
                   height |-> Optional(ZNumber),
                   deviceScaleFactor |-> Optional(ZNumber),
                   fullPage |-> Optional(ZBoolean),
                   format |-> Optional(ZEnum({"png", "jpeg"})),
                   quality |-> Optional(ZNumber),
                   renderJs |-> Optional(ZBoolean),
                   wait |-> Default(Max(Min(ZNumber, 0), 5000), Num(0)),
                   clipRectangle |-> Optional(ZObject([top |-> ZNumber, left |-> ZNumber, width |-> ZNumber, height |-> ZNumber])),
                   blockCookieBanners |-> Default(Optional(ZBoolean), Bool(TRUE)),
                   autoScroll |-> Optional(ZBoolean)]),
      alts    |-> <<>>,
      altKind |-> "none",
      altMsg  |-> "",
      keyMsg  |-> "DUMPLING_API_KEY not set",
      path    |-> "/api/v1/screenshot",
      body    |-> <<Field("url", "arg", "url"), Field("width", "arg", "width"), Field("height", "arg", "height"), Field("deviceScaleFactor", "arg", "deviceScaleFactor"), Field("fullPage", "arg", "fullPage"), Field("format", "arg", "format"), Field("quality", "arg", "quality"), Field("renderJs", "arg", "renderJs"), Field("waitFor", "arg", "wait"), Field("clipRectangle", "arg", "clipRectangle"), Field("blockCookieBanners", "arg", "blockCookieBanners"), Field("autoScroll", "arg", "autoScroll")>>,
      failMsg |-> "Failed: ",
      logs    |-> FALSE,
      logMsg  |-> "",
      shaper  |-> "whole",
      shape   |-> <<>> ]

A_doc_to_text ==
    [ name    |-> "doc-to-text",
      schema  |-> ZObject([
                   inputMethod |-> ZEnum({"url", "base64"}),
                   file |-> ZString,
                   pages |-> Optional(ZString)]),
      alts    |-> <<>>,
      altKind |-> "none",
      altMsg  |-> "",
      keyMsg  |-> "DUMPLING_API_KEY not set",
      path    |-> "/api/v1/doc-to-text",
      body    |-> <<Field("inputMethod", "arg", "inputMethod"), Field("file", "arg", "file"), Field("pages", "arg", "pages")>>,
      failMsg |-> "Failed: ",
      logs    |-> FALSE,
      logMsg  |-> "",
      shaper  |-> "whole",
      shape   |-> <<>> ]

A_convert_to_pdf ==
    [ name    |-> "convert-to-pdf",
      schema  |-> ZObject([
                   inputMethod |-> ZEnum({"url", "base64"}),
                   file |-> ZString]),
      alts    |-> <<>>,
      altKind |-> "none",
      altMsg  |-> "",
      keyMsg  |-> "DUMPLING_API_KEY not set",
      path    |-> "/api/v1/convert-to-pdf",
      body    |-> <<Field("inputMethod", "arg", "inputMethod"), Field("file", "arg", "file")>>,
      failMsg |-> "Failed: ",
      logs    |-> FALSE,
      logMsg  |-> "",
      shaper  |-> "whole",
      shape   |-> <<>> ]

A_merge_pdfs ==
    [ name    |-> "merge-pdfs",
      schema  |-> ZObject([
                   inputMethod |-> ZEnum({"url", "base64"}),
                   files |-> ZArray(ZString),
                   metadata |-> Optional(ZObject([Title |-> Optional(ZString), Author |-> Optional(ZString), Subject |-> Optional(ZString), Keywords |-> Optional(ZString)])),
                   pdfa |-> Optional(ZEnum({"PDF/A-1b", "PDF/A-2b", "PDF/A-3b"})),
                   pdfua |-> Optional(ZBoolean),
                   requestSource |-> Optional(ZString)]),
      alts    |-> <<>>,
      altKind |-> "none",
      altMsg  |-> "",
      keyMsg  |-> "DUMPLING_API_KEY not set",
      path    |-> "/api/v1/merge-pdfs",
      body    |-> <<Field("inputMethod", "arg", "inputMethod"), Field("files", "arg", "files"), Field("metadata", "arg", "metadata"), Field("pdfa", "arg", "pdfa"), Field("pdfua", "arg", "pdfua"), Field("requestSource", "arg", "requestSource")>>,
      failMsg |-> "Failed: ",
      logs    |-> FALSE,
      logMsg  |-> "",
      shaper  |-> "whole",
      shape   |-> <<>> ]

A_trim_video ==
    [ name    |-> "trim-video",
      schema  |-> ZObject([
                   videoUrl |-> Url(ZString),
                   startTimestamp |-> ZString,
                   endTimestamp |-> ZString]),
      alts    |-> <<>>,
      altKind |-> "none",
      altMsg  |-> "",
      keyMsg  |-> "DUMPLING_API_KEY not set",
      path    |-> "/api/v1/trim-video",
      body    |-> <<Field("videoUrl", "arg", "videoUrl"), Field("startTimestamp", "arg", "startTimestamp"), Field("endTimestamp", "arg", "endTimestamp"), Field("requestSource", "const", "mcp")>>,
      failMsg |-> "Failed: ",
      logs    |-> FALSE,
      logMsg  |-> "",
      shaper  |-> "whole",
      shape   |-> <<>> ]

A_extract_document ==
    [ name    |-> "extract-document",
      schema  |-> ZObject([
                   inputMethod |-> ZEnum({"url", "base64"}),
                   files |-> ZArray(ZString),
                   prompt |-> ZString,
                   jsonMode |-> Optional(ZBoolean)]),
      alts    |-> <<>>,
      altKind |-> "none",
      altMsg  |-> "",
      keyMsg  |-> "DUMPLING_API_KEY not set",
      path    |-> "/api/v1/extract-document",
      body    |-> <<Field("inputMethod", "arg", "inputMethod"), Field("files", "arg", "files"), Field("prompt", "arg", "prompt"), Field("jsonMode", "arg", "jsonMode"), Field("requestSource", "const", "mcp")>>,
      failMsg |-> "Failed: ",
      logs    |-> FALSE,
      logMsg  |-> "",
      shaper  |-> "whole",
      shape   |-> <<>> ]

A_extract_image ==
    [ name    |-> "extract-image",
      schema  |-> ZObject([
                   inputMethod |-> ZEnum({"url", "base64"}),
                   images |-> ZArray(ZString),
                   prompt |-> ZString,
                   jsonMode |-> Optional(ZBoolean)]),
      alts    |-> <<>>,
      altKind |-> "none",
      altMsg  |-> "",
      keyMsg  |-> "DUMPLING_API_KEY not set",
      path    |-> "/api/v1/extract-image",
      body    |-> <<Field("inputMethod", "arg", "inputMethod"), Field("image", "first", "images"), Field("prompt", "arg", "prompt"), Field("jsonMode", "arg", "jsonMode"), Field("requestSource", "const", "mcp")>>,
      failMsg |-> "Failed: ",
      logs    |-> FALSE,
      logMsg  |-> "",
      shaper  |-> "whole",
      shape   |-> <<>> ]

A_extract_audio ==
    [ name    |-> "extract-audio",
      schema  |-> ZObject([
                   inputMethod |-> ZEnum({"url", "base64"}),
                   audio |-> ZString,
                   prompt |-> ZString,
                   jsonMode |-> Optional(ZBoolean)]),
      alts    |-> <<>>,
      altKind |-> "none",
      altMsg  |-> "",
      keyMsg  |-> "DUMPLING_API_KEY not set",
      path    |-> "/api/v1/extract-audio",
      body    |-> <<Field("inputMethod", "arg", "inputMethod"), Field("audio", "arg", "audio"), Field("prompt", "arg", "prompt"), Field("jsonMode", "arg", "jsonMode"), Field("requestSource", "const", "mcp")>>,
      failMsg |-> "Failed: ",
      logs    |-> FALSE,
      logMsg  |-> "",
      shaper  |-> "whole",
      shape   |-> <<>> ]

A_extract_video ==
    [ name    |-> "extract-video",
      schema  |-> ZObject([
                   inputMethod |-> ZEnum({"url", "base64"}),
                   video |-> ZString,
                   prompt |-> ZString,
                   jsonMode |-> Optional(ZBoolean)]),
      alts    |-> <<>>,
      altKind |-> "none",
      altMsg  |-> "",
      keyMsg  |-> "DUMPLING_API_KEY not set",
      path    |-> "/api/v1/extract-video",
      body    |-> <<Field("inputMethod", "arg", "inputMethod"), Field("video", "arg", "video"), Field("prompt", "arg", "prompt"), Field("jsonMode", "arg", "jsonMode"), Field("requestSource", "const", "mcp")>>,
      failMsg |-> "Failed: ",
      logs    |-> FALSE,
      logMsg  |-> "",
      shaper  |-> "whole",
      shape   |-> <<>> ]

A_read_pdf_metadata ==
    [ name    |-> "read-pdf-metadata",
      schema  |-> ZObject([
                   inputMethod |-> ZEnum({"url", "base64"}),
                   files |-> ZArray(ZString),
                   requestSource |-> Optional(ZString)]),
      alts    |-> <<>>,
      altKind |-> "none",
      altMsg  |-> "",
      keyMsg  |-> "DUMPLING_API_KEY not set",
      path    |-> "/api/v1/read-pdf-metadata",
      body    |-> <<Field("inputMethod", "arg", "inputMethod"), Field("files", "arg", "files"), Field("requestSource", "arg", "requestSource")>>,
      failMsg |-> "Failed: ",
      logs    |-> FALSE,
      logMsg  |-> "",
      shaper  |-> "whole",
      shape   |-> <<>> ]

A_write_pdf_metadata ==
    [ name    |-> "write-pdf-metadata",
      schema  |-> ZObject([
                   inputMethod |-> ZEnum({"url", "base64"}),
                   files |-> ZArray(ZString),
                   metadata |-> ZObject([Title |-> Optional(ZString), Author |-> Optional(ZString), Subject |-> Optional(ZString), Keywords |-> Optional(ZString), Creator |-> Optional(ZString), Producer |-> Optional(ZString)])]),
      alts    |-> <<>>,
      altKind |-> "none",
      altMsg  |-> "",
      keyMsg  |-> "DUMPLING_API_KEY not set",
      path    |-> "/api/v1/write-pdf-metadata",
      body    |-> <<Field("inputMethod", "arg", "inputMethod"), Field("files", "arg", "files"), Field("metadata", "arg", "metadata")>>,
      failMsg |-> "Failed: ",
      logs    |-> FALSE,
      logMsg  |-> "",
      shaper  |-> "whole",
      shape   |-> <<>> ]

A_generate_agent_completion ==
    [ name    |-> "generate-agent-completion",
      schema  |-> ZObject([
                   messages |-> ZArray(ZObject([role |-> ZEnum({"user", "assistant"}), content |-> ZString])),
                   agentId |-> ZString,
                   parseJson |-> Optional(ZBoolean),
                   threadId |-> Optional(ZString)]),
      alts    |-> <<>>,
      altKind |-> "none",
      altMsg  |-> "",
      keyMsg  |-> "DUMPLING_API_KEY not set",
      path    |-> "/api/v1/agents/generate-completion",
      body    |-> <<Field("messages", "arg", "messages"), Field("agentId", "arg", "agentId"), Field("parseJson", "arg", "parseJson"), Field("threadId", "arg", "threadId")>>,
      failMsg |-> "Failed: ",
      logs    |-> FALSE,
      logMsg  |-> "",
      shaper  |-> "whole",
      shape   |-> <<>> ]

A_search_knowledge_base ==
    [ name    |-> "search-knowledge-base",
      schema  |-> ZObject([
                   knowledgeBaseId |-> ZString,
                   query |-> ZString,
                   resultCount |-> Default(Optional(ZNumber), Num(5))]),
      alts    |-> <<>>,
      altKind |-> "none",
      altMsg  |-> "",
      keyMsg  |-> "DUMPLING_API_KEY not set",
      path    |-> "/api/v1/query-knowledge-base",
      body    |-> <<Field("knowledgeBaseId", "arg", "knowledgeBaseId"), Field("query", "arg", "query"), Field("resultCount", "arg", "resultCount")>>,
      failMsg |-> "Failed: ",
      logs    |-> FALSE,
      logMsg  |-> "",
      shaper  |-> "whole",
      shape   |-> <<>> ]

A_add_to_knowledge_base ==
    [ name    |-> "add-to-knowledge-base",
      schema  |-> ZObject([
                   knowledgeBaseId |-> ZString,
                   name |-> ZString,
                   content |-> ZString]),
      alts    |-> <<>>,
      altKind |-> "none",
      altMsg  |-> "",
      keyMsg  |-> "DUMPLING_API_KEY not set",
      path    |-> "/api/v1/knowledge-bases/add",
      body    |-> <<Field("knowledgeBaseId", "arg", "knowledgeBaseId"), Field("name", "arg", "name"), Field("content", "arg", "content")>>,
      failMsg |-> "Failed: ",
      logs    |-> FALSE,
      logMsg  |-> "",
      shaper  |-> "whole",
      shape   |-> <<>> ]

A_generate_ai_image ==
    [ name    |-> "generate-ai-image",
      schema  |-> ZObject([
                   model |-> ZString,
                   input |-> ZObject([prompt |-> ZString, seed |-> Optional(ZNumber), num_outputs |-> Optional(ZNumber), aspect_ratio |-> Optional(ZString), output_format |-> Optional(ZString), output_quality |-> Optional(ZNumber), num_inference_steps |-> Optional(ZNumber), guidance |-> Optional(ZNumber)])]),
      alts    |-> <<>>,
      altKind |-> "none",
      altMsg  |-> "",
      keyMsg  |-> "DUMPLING_API_KEY not set",
      path    |-> "/api/v1/generate-ai-image",
      body    |-> <<Field("model", "arg", "model"), Field("input", "arg", "input")>>,
      failMsg |-> "Failed: ",
      logs    |-> FALSE,
      logMsg  |-> "",
      shaper  |-> "whole",
      shape   |-> <<>> ]

A_run_js_code ==
    [ name    |-> "run-js-code",
      schema  |-> ZObject([
                   code |-> ZString,
                   commands |-> Optional(ZString),
                   parseJson |-> Optional(ZBoolean),
                   timeout |-> Optional(ZNumber),
                   memory |-> Optional(ZNumber)]),
      alts    |-> <<>>,
      altKind |-> "none",
      altMsg  |-> "",
      keyMsg  |-> "DUMPLING_API_KEY not set",
      path    |-> "/api/v1/run-js-code",
      body    |-> <<Field("code", "arg", "code"), Field("commands", "arg", "commands"), Field("parseJson", "arg", "parseJson"), Field("timeout", "arg", "timeout"), Field("memory", "arg", "memory")>>,
      failMsg |-> "Failed: ",
      logs    |-> FALSE,
      logMsg  |-> "",
      shaper  |-> "whole",
      shape   |-> <<>> ]

A_run_python_code ==
    [ name    |-> "run-python-code",
      schema  |-> ZObject([
                   code |-> ZString,
                   commands |-> Optional(ZString),
                   parseJson |-> Optional(ZBoolean),
                   timeout |-> Optional(ZNumber),
                   memory |-> Optional(ZNumber),
                   saveOutputFiles |-> Optional(ZBoolean)]),
      alts    |-> <<>>,
      altKind |-> "none",
      altMsg  |-> "",
      keyMsg  |-> "DUMPLING_API_KEY not set",
      path    |-> "/api/v1/run-python-code",
      body    |-> <<Field("code", "arg", "code"), Field("commands", "arg", "commands"), Field("parseJson", "arg", "parseJson"), Field("timeout", "arg", "timeout"), Field("memory", "arg", "memory"), Field("saveOutputFiles", "arg", "saveOutputFiles")>>,
      failMsg |-> "Failed: ",
      logs    |-> FALSE,
      logMsg  |-> "",
      shaper  |-> "whole",
      shape   |-> <<>> ]

C_get_youtube_transcript ==
    [ name    |-> "get-youtube-transcript",
      schema  |-> ZObject([
                   videoUrl |-> Url(ZString),
                   includeTimestamps |-> Optional(ZBoolean),
                   timestampsToCombine |-> Optional(ZNumber),
                   preferredLanguage |-> Optional(ZString)]),
      alts    |-> <<>>,
      altKind |-> "none",
      altMsg  |-> "",
      keyMsg  |-> "DUMPLING_API_KEY environment variable not set",
      path    |-> "/api/v1/get-youtube-transcript",
      body    |-> <<Field("videoUrl", "arg", "videoUrl"), Field("includeTimestamps", "arg", "includeTimestamps"), Field("timestampsToCombine", "arg", "timestampsToCombine"), Field("preferredLanguage", "arg", "preferredLanguage")>>,
      failMsg |-> "Failed to fetch YouTube transcript: ",
      logs    |-> TRUE,
      logMsg  |-> "Error fetching YouTube transcript:",
      shaper  |-> "template",
      shape   |-> <<Entry("transcript", "get", "transcript"), Entry("language", "get", "language")>> ]

C_convert_to_pdf ==
    [ name    |-> "convert-to-pdf",
      schema  |-> ZObject([
                   url |-> Optional(Url(ZString)),
                   base64 |-> Optional(ZString),
                   format |-> Optional(ZEnum({"docx", "doc", "ppt", "pptx", "xls", "xlsx", "txt", "html", "image"})),
                   options |-> Optional(ZObject([quality |-> Optional(ZNumber), pageSize |-> Optional(ZString), margin |-> Optional(ZNumber)]))]),
      alts    |-> <<"url", "base64">>,
      altKind |-> "truthy",
      altMsg  |-> "Either url or base64 is required",
      keyMsg  |-> "DUMPLING_API_KEY environment variable not set",
      path    |-> "/api/v1/convert-to-pdf",
      body    |-> <<Field("url", "arg", "url"), Field("base64", "arg", "base64"), Field("format", "arg", "format"), Field("options", "arg", "options")>>,
      failMsg |-> "Failed to convert to PDF: ",
      logs    |-> TRUE,
      logMsg  |-> "Error converting to PDF:",
      shaper  |-> "project",
      shape   |-> <<Entry("pdfBase64", "truncOrNull", "pdfBase64"), Entry("metadata", "get", "metadata")>> ]

C_merge_pdfs ==
    [ name    |-> "merge-pdfs",
      schema  |-> ZObject([
                   urls |-> Optional(ZArray(Url(ZString))),
                   base64Files |-> Optional(ZArray(ZString)),
                   options |-> Optional(ZObject([addPageNumbers |-> Optional(ZBoolean), addTableOfContents |-> Optional(ZBoolean)]))]),
      alts    |-> <<"urls", "base64Files">>,
      altKind |-> "array",
      altMsg  |-> "Either urls or base64Files is required",
      keyMsg  |-> "DUMPLING_API_KEY environment variable not set",
      path    |-> "/api/v1/merge-pdfs",
      body    |-> <<Field("urls", "arg", "urls"), Field("base64Files", "arg", "base64Files"), Field("options", "arg", "options")>>,
      failMsg |-> "Failed to merge PDFs: ",
      logs    |-> TRUE,
      logMsg  |-> "Error merging PDFs:",
      shaper  |-> "project",
      shape   |-> <<Entry("mergedPdfBase64", "truncOrNull", "mergedPdfBase64"), Entry("pageCount", "get", "pageCount")>> ]

C_trim_video ==
    [ name    |-> "trim-video",
      schema  |-> ZObject([
                   url |-> Optional(Url(ZString)),
                   base64 |-> Optional(ZString),
                   startTime |-> ZNumber,
                   endTime |-> ZNumber,
                   output |-> Optional(ZEnum({"mp4", "webm", "gif"})),
                   options |-> Optional(ZObject([quality |-> Optional(ZNumber), width |-> Optional(ZNumber), height |-> Optional(ZNumber), fps |-> Optional(ZNumber)]))]),
      alts    |-> <<"url", "base64">>,
      altKind |-> "truthy",
      altMsg  |-> "Either url or base64 is required",
      keyMsg  |-> "DUMPLING_API_KEY environment variable not set",
      path    |-> "/api/v1/trim-video",
      body    |-> <<Field("url", "arg", "url"), Field("base64", "arg", "base64"), Field("startTime", "arg", "startTime"), Field("endTime", "arg", "endTime"), Field("output", "arg", "output"), Field("options", "arg", "options")>>,
      failMsg |-> "Failed to trim video: ",
      logs    |-> TRUE,
      logMsg  |-> "Error trimming video:",
      shaper  |-> "project",
      shape   |-> <<Entry("outputBase64", "truncOrNull", "outputBase64"), Entry("format", "get", "format"), Entry("duration", "get", "duration"), Entry("size", "get", "size")>> ]

C_extract_image ==
    [ name    |-> "extract-image",
      schema  |-> ZObject([
                   url |-> Optional(Url(ZString)),
                   base64 |-> Optional(ZString),
                   extractionType |-> ZEnum({"text", "objects", "faces", "colors", "all"}),
                   options |-> Optional(ZObject([language |-> Optional(ZString), confidence |-> Optional(ZNumber), detectOrientation |-> Optional(ZBoolean)]))]),
      alts    |-> <<"url", "base64">>,
      altKind |-> "truthy",
      altMsg  |-> "Either url or base64 is required",
      keyMsg  |-> "DUMPLING_API_KEY environment variable not set",
      path    |-> "/api/v1/extract-image",
      body    |-> <<Field("url", "arg", "url"), Field("base64", "arg", "base64"), Field("extractionType", "arg", "extractionType"), Field("options", "arg", "options")>>,
      failMsg |-> "Failed to extract image content: ",
      logs    |-> TRUE,
      logMsg  |-> "Error extracting image content:",
      shaper  |-> "whole",
      shape   |-> <<>> ]

D_get_youtube_transcript ==
    [ name    |-> "get-youtube-transcript",
      schema  |-> ZObject([
                   videoUrl |-> Url(ZString),
                   includeTimestamps |-> Default(Optional(ZBoolean), Bool(TRUE)),
                   timestampsToCombine |-> Default(Optional(ZNumber), Num(1)),
                   preferredLanguage |-> Default(Optional(ZString), Str("en"))]),
      alts    |-> <<>>,
      altKind |-> "none",
      altMsg  |-> "",
      keyMsg  |-> "DUMPLING_API_KEY environment variable not set",
      path    |-> "/api/v1/get-youtube-transcript",
      body    |-> <<Field("videoUrl", "arg", "videoUrl"), Field("includeTimestamps", "arg", "includeTimestamps"), Field("timestampsToCombine", "arg", "timestampsToCombine"), Field("preferredLanguage", "arg", "preferredLanguage")>>,
      failMsg |-> "Failed to fetch YouTube transcript: ",
      logs    |-> TRUE,
      logMsg  |-> "Error fetching YouTube transcript:",
      shaper  |-> "template",
      shape   |-> <<Entry("transcript", "get", "transcript"), Entry("language", "get", "language")>> ]

D_search ==
    [ name    |-> "search",
      schema  |-> ZObject([
                   query |-> ZString,
                   country |-> Optional(ZString),
                   location |-> Optional(ZString),
                   language |-> Optional(ZString),
                   dateRange |-> Optional(ZEnum({"anyTime", "pastHour", "pastDay", "pastWeek", "pastMonth", "pastYear"})),
                   page |-> Optional(ZNumber),
                   scrapeResults |-> Optional(ZBoolean),
                   numResultsToScrape |-> Optional(ZNumber),
                   scrapeOptions |-> Optional(ZObject([format |-> Optional(ZEnum({"markdown", "html", "screenshot"})), cleaned |-> Optional(ZBoolean)]))]),
      alts    |-> <<>>,
      altKind |-> "none",
      altMsg  |-> "",
      keyMsg  |-> "DUMPLING_API_KEY environment variable not set",
      path    |-> "/api/v1/search",
      body    |-> <<Field("query", "arg", "query"), Field("country", "arg", "country"), Field("location", "arg", "location"), Field("language", "arg", "language"), Field("dateRange", "arg", "dateRange"), Field("page", "arg", "page"), Field("scrapeResults", "arg", "scrapeResults"), Field("numResultsToScrape", "arg", "numResultsToScrape"), Field("scrapeOptions", "arg", "scrapeOptions")>>,
      failMsg |-> "Failed to perform search: ",
      logs    |-> TRUE,
      logMsg  |-> "Error performing search:",
      shaper  |-> "project",
      shape   |-> <<Entry("searchParameters", "get", "searchParameters"), Entry("organicResults", "organic", "organic"), Entry("featuredSnippet", "cond", "featuredSnippet"), Entry("relatedSearches", "cond", "relatedSearches"), Entry("peopleAlsoAsk", "cond", "peopleAlsoAsk")>> ]

D_get_autocomplete ==
    [ name    |-> "get-autocomplete",
      schema  |-> ZObject([
                   query |-> ZString,
                   location |-> Optional(ZString),
                   country |-> Optional(ZString),
                   language |-> Optional(ZString)]),
      alts    |-> <<>>,
      altKind |-> "none",
      altMsg  |-> "",
      keyMsg  |-> "DUMPLING_API_KEY environment variable not set",
      path    |-> "/api/v1/get-autocomplete",
      body    |-> <<Field("query", "arg", "query"), Field("location", "arg", "location"), Field("country", "arg", "country"), Field("language", "arg", "language")>>,
      failMsg |-> "Failed to get autocomplete suggestions: ",
      logs    |-> TRUE,
      logMsg  |-> "Error getting autocomplete suggestions:",
      shaper  |-> "project",
      shape   |-> <<Entry("searchParameters", "get", "searchParameters"), Entry("suggestions", "get", "suggestions")>> ]

D_search_maps ==
    [ name    |-> "search-maps",
      schema  |-> ZObject([
                   query |-> ZString,
                   gpsPositionZoom |-> Optional(ZString),
                   placeId |-> Optional(ZString),
                   cid |-> Optional(ZString),
                   language |-> Optional(ZString),
                   page |-> Optional(ZNumber)]),
      alts    |-> <<>>,
      altKind |-> "none",
      altMsg  |-> "",
      keyMsg  |-> "DUMPLING_API_KEY environment variable not set",
      path    |-> "/api/v1/search-maps",
      body    |-> <<Field("query", "arg", "query"), Field("gpsPositionZoom", "arg", "gpsPositionZoom"), Field("placeId", "arg", "placeId"), Field("cid", "arg", "cid"), Field("language", "arg", "language"), Field("page", "arg", "page")>>,
      failMsg |-> "Failed to perform maps search: ",
      logs    |-> TRUE,
      logMsg  |-> "Error performing maps search:",
      shaper  |-> "project",
      shape   |-> <<Entry("searchParameters", "get", "searchParameters"), Entry("ll", "get", "ll"), Entry("places", "get", "places")>> ]

D_search_places ==
    [ name    |-> "search-places",
      schema  |-> ZObject([
                   query |-> ZString,
                   country |-> Optional(ZString),
                   location |-> Optional(ZString),
                   language |-> Optional(ZString),
                   page |-> Optional(ZNumber)]),
      alts    |-> <<>>,
      altKind |-> "none",
      altMsg  |-> "",
      keyMsg  |-> "DUMPLING_API_KEY environment variable not set",
      path    |-> "/api/v1/search-places",
      body    |-> <<Field("query", "arg", "query"), Field("country", "arg", "country"), Field("location", "arg", "location"), Field("language", "arg", "language"), Field("page", "arg", "page")>>,
      failMsg |-> "Failed to perform places search: ",
      logs    |-> TRUE,
      logMsg  |-> "Error performing places search:",
      shaper  |-> "project",
      shape   |-> <<Entry("searchParameters", "get", "searchParameters"), Entry("places", "get", "places")>> ]

D_search_news ==
    [ name    |-> "search-news",
      schema  |-> ZObject([
                   query |-> ZString,
                   country |-> Optional(ZString),
                   location |-> Optional(ZString),
                   language |-> Optional(ZString),
                   dateRange |-> Optional(ZEnum({"anyTime", "pastHour", "pastDay", "pastWeek", "pastMonth", "pastYear"})),
                   page |-> Optional(ZNumber)]),
      alts    |-> <<>>,
      altKind |-> "none",
      altMsg  |-> "",
      keyMsg  |-> "DUMPLING_API_KEY environment variable not set",
      path    |-> "/api/v1/search-news",
      body    |-> <<Field("query", "arg", "query"), Field("country", "arg", "country"), Field("location", "arg", "location"), Field("language", "arg", "language"), Field("dateRange", "arg", "dateRange"), Field("page", "arg", "page")>>,
      failMsg |-> "Failed to perform news search: ",
      logs    |-> TRUE,
      logMsg  |-> "Error performing news search:",
      shaper  |-> "project",
      shape   |-> <<Entry("searchParameters", "get", "searchParameters"), Entry("news", "get", "news")>> ]

D_get_google_reviews ==
    [ name    |-> "get-google-reviews",
      schema  |-> ZObject([
                   placeId |-> Optional(ZString),
                   businessName |-> Optional(ZString),
                   location |-> Optional(ZString),
                   language |-> Optional(ZString),
                   limit |-> Optional(ZNumber),
                   sortBy |-> Optional(ZEnum({"relevance", "newest"}))]),
      alts    |-> <<"placeId", "businessName">>,
      altKind |-> "truthy",
      altMsg  |-> "Either placeId or businessName is required",
      keyMsg  |-> "DUMPLING_API_KEY environment variable not set",
      path    |-> "/api/v1/get-google-reviews",
      body    |-> <<Field("placeId", "arg", "placeId"), Field("businessName", "arg", "businessName"), Field("location", "arg", "location"), Field("language", "arg", "language"), Field("limit", "arg", "limit"), Field("sortBy", "arg", "sortBy")>>,
      failMsg |-> "Failed to get Google reviews: ",
      logs    |-> TRUE,
      logMsg  |-> "Error getting Google reviews:",
      shaper  |-> "whole",
      shape   |-> <<>> ]

D_scrape ==
    [ name    |-> "scrape",
      schema  |-> ZObject([
                   url |-> Url(ZString),
                   format |-> Optional(ZEnum({"markdown", "html", "screenshot"})),
                   cleaned |-> Optional(ZBoolean),
                   renderJs |-> Optional(ZBoolean)]),
      alts    |-> <<>>,
      altKind |-> "none",
      altMsg  |-> "",
      keyMsg  |-> "DUMPLING_API_KEY environment variable not set",
      path    |-> "/api/v1/scrape",
      body    |-> <<Field("url", "arg", "url"), Field("format", "arg", "format"), Field("cleaned", "arg", "cleaned"), Field("renderJs", "arg", "renderJs")>>,
      failMsg |-> "Failed to scrape URL: ",
      logs    |-> TRUE,
      logMsg  |-> "Error scraping URL:",
      shaper  |-> "project",
      shape   |-> <<Entry("title", "get", "title"), Entry("metadata", "get", "metadata"), Entry("url", "get", "url"), Entry("format", "get", "format"), Entry("cleaned", "get", "cleaned"), Entry("content", "get", "content")>> ]

D_crawl ==
    [ name    |-> "crawl",
      schema  |-> ZObject([
                   baseUrl |-> Url(ZString),
                   maxPages |-> Optional(ZNumber),
                   crawlBeyondBaseUrl |-> Optional(ZBoolean),
                   depth |-> Optional(ZNumber),
                   strategy |-> Optional(ZString),
                   filterRegex |-> Optional(ZString),
                   scrapeOptions |-> Optional(ZObject([format |-> Optional(ZEnum({"markdown", "html", "screenshot"})), cleaned |-> Optional(ZBoolean), renderJs |-> Optional(ZBoolean)]))]),
      alts    |-> <<>>,
      altKind |-> "none",
      altMsg  |-> "",
      keyMsg  |-> "DUMPLING_API_KEY environment variable not set",
      path    |-> "/api/v1/crawl",
      body    |-> <<Field("baseUrl", "arg", "baseUrl"), Field("maxPages", "arg", "maxPages"), Field("crawlBeyondBaseUrl", "arg", "crawlBeyondBaseUrl"), Field("depth", "arg", "depth"), Field("strategy", "arg", "strategy"), Field("filterRegex", "arg", "filterRegex"), Field("scrapeOptions", "arg", "scrapeOptions")>>,
      failMsg |-> "Failed to crawl website: ",
      logs    |-> TRUE,
      logMsg  |-> "Error crawling website:",
      shaper  |-> "whole",
      shape   |-> <<>> ]

D_screenshot ==
    [ name    |-> "screenshot",
      schema  |-> ZObject([
                   url |-> Url(ZString),
                   width |-> Optional(ZNumber),
                   height |-> Optional(ZNumber),
                   deviceScaleFactor |-> Optional(ZNumber),
                   fullPage |-> Optional(ZBoolean),
                   format |-> Optional(ZEnum({"png", "jpeg"})),
                   quality |-> Optional(ZNumber),
                   renderJs |-> Optional(ZBoolean),
                   waitFor |-> Optional(ZNumber)]),
      alts    |-> <<>>,
      altKind |-> "none",
      altMsg  |-> "",
      keyMsg  |-> "DUMPLING_API_KEY environment variable not set",
      path    |-> "/api/v1/screenshot",
      body    |-> <<Field("url", "arg", "url"), Field("width", "arg", "width"), Field("height", "arg", "height"), Field("deviceScaleFactor", "arg", "deviceScaleFactor"), Field("fullPage", "arg", "fullPage"), Field("format", "arg", "format"), Field("quality", "arg", "quality"), Field("renderJs", "arg", "renderJs"), Field("waitFor", "arg", "waitFor")>>,
      failMsg |-> "Failed to capture screenshot: ",
      logs    |-> TRUE,
      logMsg  |-> "Error capturing screenshot:",
      shaper  |-> "project",
      shape   |-> <<Entry("url", "get", "url"), Entry("imageBase64", "trunc", "imageBase64"), Entry("format", "get", "format")>> ]

D_extract ==
    [ name    |-> "extract",
      schema  |-> ZObject([
                   url |-> Url(ZString),
                   instructions |-> ZString,
                   schema |-> Optional(ZRecord(ZAny)),
                   renderJs |-> Optional(ZBoolean)]),
      alts    |-> <<>>,
      altKind |-> "none",
      altMsg  |-> "",
      keyMsg  |-> "DUMPLING_API_KEY environment variable not set",
      path    |-> "/api/v1/extract",
      body    |-> <<Field("url", "arg", "url"), Field("instructions", "arg", "instructions"), Field("schema", "arg", "schema"), Field("renderJs", "arg", "renderJs")>>,
      failMsg |-> "Failed to extract data: ",
      logs    |-> TRUE,
      logMsg  |-> "Error extracting data:",
      shaper  |-> "whole",
      shape   |-> <<>> ]

D_doc_to_text ==
    [ name    |-> "doc-to-text",
      schema  |-> ZObject([
                   url |-> Optional(Url(ZString)),
                   base64 |-> Optional(ZString),
                   options |-> Optional(ZObject([ocr |-> Optional(ZBoolean), language |-> Optional(ZString)]))]),
      alts    |-> <<"url", "base64">>,
      altKind |-> "truthy",
      altMsg  |-> "Either url or base64 is required",
      keyMsg  |-> "DUMPLING_API_KEY environment variable not set",
      path    |-> "/api/v1/doc-to-text",
      body    |-> <<Field("url", "arg", "url"), Field("base64", "arg", "base64"), Field("options", "arg", "options")>>,
      failMsg |-> "Failed to convert document to text: ",
      logs    |-> TRUE,
      logMsg  |-> "Error converting document to text:",
      shaper  |-> "project",
      shape   |-> <<Entry("text", "get", "text"), Entry("pages", "get", "pages"), Entry("metadata", "get", "metadata")>> ]

D_convert_to_pdf ==
    [ name    |-> "convert-to-pdf",
      schema  |-> ZObject([
                   url |-> Optional(Url(ZString)),
                   base64 |-> Optional(ZString),
                   format |-> Optional(ZEnum({"docx", "doc", "ppt", "pptx", "xls", "xlsx", "txt", "html", "image"})),
                   options |-> Optional(ZObject([margin |-> Optional(ZNumber), pageSize |-> Optional(ZString), quality |-> Optional(ZNumber)]))]),
      alts    |-> <<"url", "base64">>,
      altKind |-> "truthy",
      altMsg  |-> "Either url or base64 is required",
      keyMsg  |-> "DUMPLING_API_KEY environment variable not set",
      path    |-> "/api/v1/convert-to-pdf",
      body    |-> <<Field("url", "arg", "url"), Field("base64", "arg", "base64"), Field("format", "arg", "format"), Field("options", "arg", "options")>>,
      failMsg |-> "Failed to convert to PDF: ",
      logs    |-> TRUE,
      logMsg  |-> "Error converting to PDF:",
      shaper  |-> "project",
      shape   |-> <<Entry("pdfBase64", "truncOrNull", "pdfBase64"), Entry("metadata", "get", "metadata")>> ]

D_merge_pdfs ==
    [ name    |-> "merge-pdfs",
      schema  |-> ZObject([
                   urls |-> Optional(ZArray(ZString)),
                   base64Files |-> Optional(ZArray(ZString)),
                   options |-> Optional(ZObject([addPageNumbers |-> Optional(ZBoolean), addTableOfContents |-> Optional(ZBoolean)]))]),
      alts    |-> <<"urls", "base64Files">>,
      altKind |-> "array",
      altMsg  |-> "Either urls or base64Files is required",
      keyMsg  |-> "DUMPLING_API_KEY environment variable not set",
      path    |-> "/api/v1/merge-pdfs",
      body    |-> <<Field("urls", "arg", "urls"), Field("base64Files", "arg", "base64Files"), Field("options", "arg", "options")>>,
      failMsg |-> "Failed to merge PDFs: ",
      logs    |-> TRUE,
      logMsg  |-> "Error merging PDFs:",
      shaper  |-> "project",
      shape   |-> <<Entry("mergedPdfBase64", "truncOrNull", "mergedPdfBase64"), Entry("pageCount", "get", "pageCount")>> ]

D_trim_video ==
    [ name    |-> "trim-video",
      schema  |-> ZObject([
                   url |-> Optional(Url(ZString)),
                   base64 |-> Optional(ZString),
                   startTime |-> ZNumber,
                   endTime |-> ZNumber,
                   output |-> Optional(ZEnum({"mp4", "webm", "gif"})),
                   options |-> Optional(ZObject([width |-> Optional(ZNumber), height |-> Optional(ZNumber), fps |-> Optional(ZNumber), quality |-> Optional(ZNumber)]))]),
      alts    |-> <<"url", "base64">>,
      altKind |-> "truthy",
      altMsg  |-> "Either url or base64 is required",
      keyMsg  |-> "DUMPLING_API_KEY environment variable not set",
      path    |-> "/api/v1/trim-video",
      body    |-> <<Field("url", "arg", "url"), Field("base64", "arg", "base64"), Field("startTime", "arg", "startTime"), Field("endTime", "arg", "endTime"), Field("output", "arg", "output"), Field("options", "arg", "options")>>,
      failMsg |-> "Failed to trim video: ",
      logs    |-> TRUE,
      logMsg  |-> "Error trimming video:",
      shaper  |-> "project",
      shape   |-> <<Entry("outputBase64", "truncOrNull", "outputBase64"), Entry("format", "get", "format"), Entry("duration", "get", "duration"), Entry("size", "get", "size")>> ]

D_extract_document ==
    [ name    |-> "extract-document",
      schema  |-> ZObject([
                   url |-> Optional(Url(ZString)),
                   base64 |-> Optional(ZString),
                   format |-> ZEnum({"text", "structured", "tables", "forms"}),
                   options |-> Optional(ZObject([ocr |-> Optional(ZBoolean), language |-> Optional(ZString), includeMetadata |-> Optional(ZBoolean)]))]),
      alts    |-> <<"url", "base64">>,
      altKind |-> "truthy",
      altMsg  |-> "Either url or base64 is required",
      keyMsg  |-> "DUMPLING_API_KEY environment variable not set",
      path    |-> "/api/v1/extract-document",
      body    |-> <<Field("url", "arg", "url"), Field("base64", "arg", "base64"), Field("format", "arg", "format"), Field("options", "arg", "options")>>,
      failMsg |-> "Failed to extract document content: ",
      logs    |-> TRUE,
      logMsg  |-> "Error extracting document content:",
      shaper  |-> "whole",
      shape   |-> <<>> ]

D_extract_image ==
    [ name    |-> "extract-image",
      schema  |-> ZObject([
                   url |-> Optional(Url(ZString)),
                   base64 |-> Optional(ZString),
                   extractionType |-> ZEnum({"text", "objects", "faces", "colors", "all"}),
                   options |-> Optional(ZObject([confidence |-> Optional(ZNumber), language |-> Optional(ZString), detectOrientation |-> Optional(ZBoolean)]))]),
      alts    |-> <<"url", "base64">>,
      altKind |-> "truthy",
      altMsg  |-> "Either url or base64 is required",
      keyMsg  |-> "DUMPLING_API_KEY environment variable not set",
      path    |-> "/api/v1/extract-image",
      body    |-> <<Field("url", "arg", "url"), Field("base64", "arg", "base64"), Field("extractionType", "arg", "extractionType"), Field("options", "arg", "options")>>,
      failMsg |-> "Failed to extract image content: ",
      logs    |-> TRUE,
      logMsg  |-> "Error extracting image content:",
      shaper  |-> "whole",
      shape   |-> <<>> ]

D_extract_audio ==
    [ name    |-> "extract-audio",
      schema  |-> ZObject([
                   url |-> Optional(Url(ZString)),
                   base64 |-> Optional(ZString),
                   language |-> Optional(ZString),
                   options |-> Optional(ZObject([model |-> Optional(ZEnum({"standard", "enhanced"})), speakerDiarization |-> Optional(ZBoolean), wordTimestamps |-> Optional(ZBoolean), filterProfanity |-> Optional(ZBoolean)]))]),
      alts    |-> <<"url", "base64">>,
      altKind |-> "truthy",
      altMsg  |-> "Either url or base64 is required",
      keyMsg  |-> "DUMPLING_API_KEY environment variable not set",
      path    |-> "/api/v1/extract-audio",
      body    |-> <<Field("url", "arg", "url"), Field("base64", "arg", "base64"), Field("language", "arg", "language"), Field("options", "arg", "options")>>,
      failMsg |-> "Failed to extract audio content: ",
      logs    |-> TRUE,
      logMsg  |-> "Error extracting audio content:",
      shaper  |-> "project",
      shape   |-> <<Entry("transcript", "get", "transcript"), Entry("language", "get", "language"), Entry("durationInSeconds", "get", "durationInSeconds"), Entry("segments", "cond", "segments")>> ]

D_extract_video ==
    [ name    |-> "extract-video",
      schema  |-> ZObject([
                   url |-> Optional(Url(ZString)),
                   base64 |-> Optional(ZString),
                   extractionType |-> ZEnum({"transcript", "scenes", "objects", "summary", "all"}),
                   options |-> Optional(ZObject([language |-> Optional(ZString), timestampInterval |-> Optional(ZNumber), confidence |-> Optional(ZNumber), speakerDiarization |-> Optional(ZBoolean)]))]),
      alts    |-> <<"url", "base64">>,
      altKind |-> "truthy",
      altMsg  |-> "Either url or base64 is required",
      keyMsg  |-> "DUMPLING_API_KEY environment variable not set",
      path    |-> "/api/v1/extract-video",
      body    |-> <<Field("url", "arg", "url"), Field("base64", "arg", "base64"), Field("extractionType", "arg", "extractionType"), Field("options", "arg", "options")>>,
      failMsg |-> "Failed to extract video content: ",
      logs    |-> TRUE,
      logMsg  |-> "Error extracting video content:",
      shaper  |-> "whole",
      shape   |-> <<>> ]

D_read_pdf_metadata ==
    [ name    |-> "read-pdf-metadata",
      schema  |-> ZObject([
                   url |-> Optional(Url(ZString)),
                   base64 |-> Optional(ZString),
                   includeExtended |-> Optional(ZBoolean)]),
      alts    |-> <<"url", "base64">>,
      altKind |-> "truthy",
      altMsg  |-> "Either url or base64 is required",
      keyMsg  |-> "DUMPLING_API_KEY environment variable not set",
      path    |-> "/api/v1/read-pdf-metadata",
      body    |-> <<Field("url", "arg", "url"), Field("base64", "arg", "base64"), Field("includeExtended", "arg", "includeExtended")>>,
      failMsg |-> "Failed to read PDF metadata: ",
      logs    |-> TRUE,
      logMsg  |-> "Error reading PDF metadata:",
      shaper  |-> "whole",
      shape   |-> <<>> ]

D_write_pdf_metadata ==
    [ name    |-> "write-pdf-metadata",
      schema  |-> ZObject([
                   url |-> Optional(Url(ZString)),
                   base64 |-> Optional(ZString),
                   metadata |-> ZObject([title |-> Optional(ZString), author |-> Optional(ZString), subject |-> Optional(ZString), keywords |-> Optional(ZArray(ZString)), creator |-> Optional(ZString), producer |-> Optional(ZString), creationDate |-> Optional(ZString), modDate |-> Optional(ZString), customProperties |-> Optional(ZRecord(ZString))])]),
      alts    |-> <<"url", "base64">>,
      altKind |-> "truthy",
      altMsg  |-> "Either url or base64 is required",
      keyMsg  |-> "DUMPLING_API_KEY environment variable not set",
      path    |-> "/api/v1/write-pdf-metadata",
      body    |-> <<Field("url", "arg", "url"), Field("base64", "arg", "base64"), Field("metadata", "arg", "metadata")>>,
      failMsg |-> "Failed to write PDF metadata: ",
      logs    |-> TRUE,
      logMsg  |-> "Error writing PDF metadata:",
      shaper  |-> "project",
      shape   |-> <<Entry("outputBase64", "truncOrNull", "outputBase64"), Entry("success", "get", "success"), Entry("updatedMetadata", "get", "updatedMetadata")>> ]

D_generate_agent_completion ==
    [ name    |-> "generate-agent-completion",
      schema  |-> ZObject([
                   prompt |-> ZString,
                   agentId |-> Optional(ZString),
                   model |-> Optional(ZString),
                   temperature |-> Optional(ZNumber),
                   maxTokens |-> Optional(ZNumber),
                   tools |-> Optional(ZArray(ZObject([name |-> ZString, description |-> ZString, parameters |-> ZRecord(ZAny)]))),
                   context |-> Optional(ZArray(ZString))]),
      alts    |-> <<>>,
      altKind |-> "none",
      altMsg  |-> "",
      keyMsg  |-> "DUMPLING_API_KEY environment variable not set",
      path    |-> "/api/v1/generate-agent-completion",
      body    |-> <<Field("prompt", "arg", "prompt"), Field("agentId", "arg", "agentId"), Field("model", "arg", "model"), Field("temperature", "arg", "temperature"), Field("maxTokens", "arg", "maxTokens"), Field("tools", "arg", "tools"), Field("context", "arg", "context")>>,
      failMsg |-> "Failed to generate agent completion: ",
      logs    |-> TRUE,
      logMsg  |-> "Error generating agent completion:",
      shaper  |-> "project",
      shape   |-> <<Entry("completion", "get", "completion"), Entry("toolCalls", "get", "toolCalls"), Entry("tokenUsage", "get", "tokenUsage")>> ]

D_search_knowledge_base ==
    [ name    |-> "search-knowledge-base",
      schema  |-> ZObject([
                   kbId |-> ZString,
                   query |-> ZString,
                   limit |-> Optional(ZNumber),
                   metadata |-> Optional(ZRecord(ZAny)),
                   similarityThreshold |-> Optional(ZNumber)]),
      alts    |-> <<>>,
      altKind |-> "none",
      altMsg  |-> "",
      keyMsg  |-> "DUMPLING_API_KEY environment variable not set",
      path    |-> "/api/v1/search-knowledge-base",
      body    |-> <<Field("kbId", "arg", "kbId"), Field("query", "arg", "query"), Field("limit", "arg", "limit"), Field("metadata", "arg", "metadata"), Field("similarityThreshold", "arg", "similarityThreshold")>>,
      failMsg |-> "Failed to search knowledge base: ",
      logs    |-> TRUE,
      logMsg  |-> "Error searching knowledge base:",
      shaper  |-> "whole",
      shape   |-> <<>> ]

D_add_to_knowledge_base ==
    [ name    |-> "add-to-knowledge-base",
      schema  |-> ZObject([
                   kbId |-> ZString,
                   entries |-> ZArray(ZObject([text |-> ZString, metadata |-> Optional(ZRecord(ZAny))])),
                   upsert |-> Optional(ZBoolean)]),
      alts    |-> <<>>,
      altKind |-> "none",
      altMsg  |-> "",
      keyMsg  |-> "DUMPLING_API_KEY environment variable not set",
      path    |-> "/api/v1/add-to-knowledge-base",
      body    |-> <<Field("kbId", "arg", "kbId"), Field("entries", "arg", "entries"), Field("upsert", "arg", "upsert")>>,
      failMsg |-> "Failed to add to knowledge base: ",
      logs    |-> TRUE,
      logMsg  |-> "Error adding to knowledge base:",
      shaper  |-> "whole",
      shape   |-> <<>> ]

D_generate_ai_image ==
    [ name    |-> "generate-ai-image",
      schema  |-> ZObject([
                   prompt |-> ZString,
                   model |-> Optional(ZString),
                   width |-> Optional(ZNumber),
                   height |-> Optional(ZNumber),
                   numImages |-> Optional(ZNumber),
                   quality |-> Optional(ZEnum({"standard", "hd"})),
                   style |-> Optional(ZString),
                   negativePrompt |-> Optional(ZString)]),
      alts    |-> <<>>,
      altKind |-> "none",
      altMsg  |-> "",
      keyMsg  |-> "DUMPLING_API_KEY environment variable not set",
      path    |-> "/api/v1/generate-ai-image",
      body    |-> <<Field("prompt", "arg", "prompt"), Field("model", "arg", "model"), Field("width", "arg", "width"), Field("height", "arg", "height"), Field("numImages", "arg", "numImages"), Field("quality", "arg", "quality"), Field("style", "arg", "style"), Field("negativePrompt", "arg", "negativePrompt")>>,
      failMsg |-> "Failed to generate AI image: ",
      logs    |-> TRUE,
      logMsg  |-> "Error generating AI image:",
      shaper  |-> "project",
      shape   |-> <<Entry("images", "images", "images"), Entry("model", "get", "model"), Entry("prompt", "get", "prompt")>> ]

D_generate_image ==
    [ name    |-> "generate-image",
      schema  |-> ZObject([
                   prompt |-> ZString,
                   provider |-> Optional(ZEnum({"dalle", "stable-diffusion", "midjourney"})),
                   width |-> Optional(ZNumber),
                   height |-> Optional(ZNumber),
                   numImages |-> Optional(ZNumber),
                   quality |-> Optional(ZEnum({"standard", "hd"})),
                   style |-> Optional(ZString),
                   negativePrompt |-> Optional(ZString)]),
      alts    |-> <<>>,
      altKind |-> "none",
      altMsg  |-> "",
      keyMsg  |-> "DUMPLING_API_KEY environment variable not set",
      path    |-> "/api/v1/generate-image",
      body    |-> <<Field("prompt", "arg", "prompt"), Field("provider", "arg", "provider"), Field("width", "arg", "width"), Field("height", "arg", "height"), Field("numImages", "arg", "numImages"), Field("quality", "arg", "quality"), Field("style", "arg", "style"), Field("negativePrompt", "arg", "negativePrompt")>>,
      failMsg |-> "Failed to generate image: ",
      logs    |-> TRUE,
      logMsg  |-> "Error generating image:",
      shaper  |-> "project",
      shape   |-> <<Entry("images", "images", "images"), Entry("provider", "get", "provider"), Entry("prompt", "get", "prompt")>> ]

D_run_js_code ==
    [ name    |-> "run-js-code",
      schema  |-> ZObject([
                   code |-> ZString,
                   dependencies |-> Optional(ZRecord(ZString)),
                   timeout |-> Optional(ZNumber),
                   memory |-> Optional(ZNumber)]),
      alts    |-> <<>>,
      altKind |-> "none",
      altMsg  |-> "",
      keyMsg  |-> "DUMPLING_API_KEY environment variable not set",
      path    |-> "/api/v1/run-js-code",
      body    |-> <<Field("code", "arg", "code"), Field("dependencies", "arg", "dependencies"), Field("timeout", "arg", "timeout"), Field("memory", "arg", "memory")>>,
      failMsg |-> "Failed to run JavaScript code: ",
      logs    |-> TRUE,
      logMsg  |-> "Error running JavaScript code:",
      shaper  |-> "project",
      shape   |-> <<Entry("result", "get", "result"), Entry("console", "get", "console"), Entry("executionTime", "get", "executionTime"), Entry("error", "get", "error")>> ]

D_run_python_code ==
    [ name    |-> "run-python-code",
      schema  |-> ZObject([
                   code |-> ZString,
                   dependencies |-> Optional(ZArray(ZString)),
                   timeout |-> Optional(ZNumber),
                   memory |-> Optional(ZNumber),
                   saveOutputFiles |-> Optional(ZBoolean)]),
      alts    |-> <<>>,
      altKind |-> "none",
      altMsg  |-> "",
      keyMsg  |-> "DUMPLING_API_KEY environment variable not set",
      path    |-> "/api/v1/run-python-code",
      body    |-> <<Field("code", "arg", "code"), Field("dependencies", "arg", "dependencies"), Field("timeout", "arg", "timeout"), Field("memory", "arg", "memory"), Field("saveOutputFiles", "arg", "saveOutputFiles")>>,
      failMsg |-> "Failed to run Python code: ",
      logs    |-> TRUE,
      logMsg  |-> "Error running Python code:",
      shaper  |-> "project",
      shape   |-> <<Entry("result", "get", "result"), Entry("stdout", "get", "stdout"), Entry("stderr", "get", "stderr"), Entry("executionTime", "get", "executionTime"), Entry("outputFiles", "get", "outputFiles")>> ]
(***************************************************************************)
(* The registrations of each revision, in source order.  A_ is a tool of   *)
(* the first revision in index.ts, D_ a tool of part_001, C_ a tool of     *)
(* part_000 that part_001 changed; the second revision in index.ts and     *)
(* part_000 register the other tools as part_001 does.                     *)
(***************************************************************************)
Tools_index_ts_1 ==
    << A_get_youtube_transcript, A_search, A_get_autocomplete,
       A_search_maps, A_search_places, A_search_news,
       A_get_google_reviews, A_scrape, A_crawl,
       A_extract, A_screenshot, A_doc_to_text,
       A_convert_to_pdf, A_merge_pdfs, A_trim_video,
       A_extract_document, A_extract_image, A_extract_audio,
       A_extract_video, A_read_pdf_metadata, A_write_pdf_metadata,
       A_generate_agent_completion, A_search_knowledge_base, A_add_to_knowledge_base,
       A_generate_ai_image, A_run_js_code, A_run_python_code >>

Tools_index_ts_2 ==
    << C_get_youtube_transcript, D_search, D_get_autocomplete,
       D_search_maps, D_search_places, D_search_news,
       D_get_google_reviews >>

Tools_part_000 ==
    << C_get_youtube_transcript, D_search, D_get_autocomplete,
       D_search_maps, D_search_places, D_search_news,
       D_get_google_reviews, D_scrape, D_crawl,
       D_screenshot, D_extract, D_doc_to_text,
       C_convert_to_pdf, C_merge_pdfs, C_trim_video,
       D_extract_document, C_extract_image, D_extract_audio,
       D_extract_video, D_read_pdf_metadata, D_write_pdf_metadata,
       D_generate_agent_completion, D_search_knowledge_base, D_add_to_knowledge_base,
       D_generate_ai_image, D_generate_image, D_run_js_code,
       D_run_python_code >>

Tools_part_001 ==
    << D_get_youtube_transcript, D_search, D_get_autocomplete,
       D_search_maps, D_search_places, D_search_news,
       D_get_google_reviews, D_scrape, D_crawl,
       D_screenshot, D_extract, D_doc_to_text,
       D_convert_to_pdf, D_merge_pdfs, D_trim_video,
       D_extract_document, D_extract_image, D_extract_audio,
       D_extract_video, D_read_pdf_metadata, D_write_pdf_metadata,
       D_generate_agent_completion, D_search_knowledge_base, D_add_to_knowledge_base,
       D_generate_ai_image, D_generate_image, D_run_js_code,
       D_run_python_code >>

Builds == {"index_ts_1", "index_ts_2", "part_000", "part_001"}

Registrations(b) ==
    CASE b = "index_ts_1" -> Tools_index_ts_1
      [] b = "index_ts_2" -> Tools_index_ts_2
      [] b = "part_000"   -> Tools_part_000
      [] b = "part_001"   -> Tools_part_001

\* the names registered once the module body has run
ToolNames(b) == {Registrations(b)[n].name : n \in 1..Len(Registrations(b))}

\* the definition registered under a name
ToolDef(b, name) ==
    LET r == Registrations(b)
    IN  r[CHOOSE n \in 1..Len(r) : r[n].name = name]

(***************************************************************************)
(* Texts: a message is a sequence of pieces, a literal or the text of an   *)
(* upstream body.                                                          *)
(***************************************************************************)
Lit(s) == [lit |-> s]

TextBody(s)  == [kind |-> "text", s |-> s]
JsonBody(d)  == [kind |-> "json", doc |-> d]
AbortedBody  == [kind |-> "aborted"]

\* what response.text() resolves to
BodyText(body) == IF body.kind = "text" THEN Lit(body.s) ELSE [serialized |-> body.doc]

JsError(name, message) == [name |-> name, message |-> message]

(***************************************************************************)
(* The handler of a tool, in the three stretches between its awaits.       *)
(***************************************************************************)
\* a precondition that counts an alternative as missing only when it is absent
Missing_AbsentOnly(t, input, a) == Prop(input, a).k = "undefined"

\* if (!a && !b) throw ...   /   (!a || a.length === 0) && (...)
Missing(t, input, a) ==
    LET v == Prop(input, a)
    IN  IF t.altKind = "array"
        THEN ~Truthy(v) \/ (v.k = "array" /\ Len(v.a) = 0)
        ELSE ~Truthy(v)

\* a precondition that also refuses more than one alternative
PreconditionFails_Exclusive(t, input) ==
    /\ t.altKind # "none"
    /\ Cardinality({n \in 1..Len(t.alts) : ~Missing(t, input, t.alts[n])}) # 1

PreconditionFails(t, input) ==
    /\ t.altKind # "none"
    /\ \A n \in 1..Len(t.alts) : Missing(t, input, t.alts[n])

\* the value of one property of the body literal
FieldValue(f, input) ==
    CASE f.src = "arg"   -> Prop(input, f.arg)
      [] f.src = "const" -> Str(f.arg)
      [] f.src = "first" ->
           LET v == Prop(input, f.arg)
           IN  IF Len(v.a) >= 1 THEN v.a[1] ELSE Undef

\* body: JSON.stringify({ ... })
RequestBody(t, input) ==
    LET keys == {t.body[n].key : n \in 1..Len(t.body)}
        at(key) == CHOOSE n \in 1..Len(t.body) : t.body[n].key = key
    IN  Stringify(Obj([key \in keys |-> FieldValue(t.body[at(key)], input)]))

\* fetch(`${NWS_API_BASE}/api/v1/...`, { method, headers, body })
Request(t, input, key) ==
    [ method  |-> "POST",
      url     |-> NWS_API_BASE \o t.path,
      headers |-> [ContentType |-> "application/json",
                   Authorization |-> "Bearer " \o key.s],
      body    |-> RequestBody(t, input) ]

Rejected == [kind |-> "rejected"]
Response(status, body) == [kind |-> "response", status |-> status, body |-> body]

\* response.ok
ResponseOk(r) == r.status >= 200 /\ r.status <= 299

Returned(text) == [thrown |-> FALSE, text |-> text]
Thrown(err)    == [thrown |-> TRUE, err |-> err]
TypeError      == JsError("TypeError", <<Lit("Cannot read properties")>>)

\* x.substring(0, 100) + "..."
Preview(s) == Str(Substring0(s, PreviewLen) \o "...")

\* one element of data.organic.map((result) => ({ ... }))
OrganicEntry(r) ==
    LET so   == Prop(r, "scrapeOutput")
        base == [title    |-> Prop(r, "title"),
                 link     |-> Prop(r, "link"),
                 snippet  |-> Prop(r, "snippet"),
                 position |-> Prop(r, "position")]
    IN  IF Truthy(so)
        THEN Obj(base @@ [content |-> Prop(so, "content")])
        ELSE Obj(base)

\* one element of data.images.map((img, idx) => ({ ... }))
ImageEntry(img, idx) ==
    Obj([imageIndex |-> Num(idx), imageBase64 |-> Preview(img.s)])

\* whether evaluating one property of the result literal throws
EntryThrows(e, data) ==
    LET v == Prop(data, e.from)
    IN  CASE e.op = "trunc"       -> v.k # "string"
          [] e.op = "truncOrNull" -> Truthy(v) /\ v.k # "string"
          [] e.op = "organic"     ->
               \/ v.k # "array"
               \/ \E n \in 1..Len(v.a) : Nullish(v.a[n])
          [] e.op = "images"      ->
               \/ v.k # "array"
               \/ \E n \in 1..Len(v.a) : v.a[n].k # "string"
          [] OTHER                -> FALSE

\* whether the property is part of the literal (a spread of a falsy value
\* adds nothing)
EntryPresent(e, data) == e.op = "cond" => Truthy(Prop(data, e.from))

EntryValue(e, data) ==
    LET v == Prop(data, e.from)
    IN  CASE e.op = "trunc"       -> Preview(v.s)
          [] e.op = "truncOrNull" -> IF Truthy(v) THEN Preview(v.s) ELSE Null
          [] e.op = "organic"     -> Arr([n \in 1..Len(v.a) |-> OrganicEntry(v.a[n])])
          [] e.op = "images"      -> Arr([n \in 1..Len(v.a) |-> ImageEntry(v.a[n], n - 1)])
          [] OTHER                -> v

\* a default shaper that leaves the usage counter out of the result
Shape_DropsUsage(t, data) ==
    CASE t.shaper = "whole" ->
           IF data.k = "object"
           THEN Returned(Stringify(Obj([f \in DOMAIN data.o \ {"creditUsage"} |-> data.o[f]])))
           ELSE Returned(Stringify(data))
      [] t.shaper = "template" ->
           IF Nullish(data) THEN Thrown(TypeError)
           ELSE Returned([fmt |-> "template",
                          parts |-> <<Lit("Transcript: "),
                                      [value |-> Prop(data, t.shape[1].from)],
                                      Lit("\nLanguage: "),
                                      [value |-> Prop(data, t.shape[2].from)]>>])
      [] t.shaper = "project" ->
           IF \/ Nullish(data)
              \/ \E n \in 1..Len(t.shape) : EntryThrows(t.shape[n], data)
           THEN Thrown(TypeError)
           ELSE LET at(key) == CHOOSE n \in 1..Len(t.shape) : t.shape[n].key = key
                    keys == {t.shape[n].key : n \in {m \in 1..Len(t.shape) :
                                                       EntryPresent(t.shape[m], data)}}
                IN  Returned(Stringify(
                        Obj([key \in keys |-> EntryValue(t.shape[at(key)], data)])))

\* the code after `const data = await response.json()`
Shape(t, data) ==
    CASE t.shaper = "whole" -> Returned(Stringify(data))
      [] t.shaper = "template" ->
           IF Nullish(data) THEN Thrown(TypeError)
           ELSE Returned([fmt |-> "template",
                          parts |-> <<Lit("Transcript: "),
                                      [value |-> Prop(data, t.shape[1].from)],
                                      Lit("\nLanguage: "),
                                      [value |-> Prop(data, t.shape[2].from)]>>])
      [] t.shaper = "project" ->
           IF \/ Nullish(data)
              \/ \E n \in 1..Len(t.shape) : EntryThrows(t.shape[n], data)
           THEN Thrown(TypeError)
           ELSE LET at(key) == CHOOSE n \in 1..Len(t.shape) : t.shape[n].key = key
                    keys == {t.shape[n].key : n \in {m \in 1..Len(t.shape) :
                                                       EntryPresent(t.shape[m], data)}}
                IN  Returned(Stringify(
                        Obj([key \in keys |-> EntryValue(t.shape[at(key)], data)])))

\* a handler whose failure message names the status alone
HandlerOutcome_StatusOnly(t, reply) ==
    IF reply.kind = "rejected"
    THEN Thrown(JsError("TypeError", <<Lit("fetch failed")>>))
    ELSE IF ~ResponseOk(reply)
    THEN Thrown(JsError("Error", <<Lit(t.failMsg), Lit(NumToStr(reply.status))>>))
    ELSE CASE reply.body.kind = "aborted" ->
                Thrown(JsError("TypeError", <<Lit("terminated")>>))
           [] reply.body.kind = "text" ->
                Thrown(JsError("SyntaxError", <<Lit("Unexpected token")>>))
           [] reply.body.kind = "json" -> Shape(t, reply.body.doc)

\* the handler from the settling of fetch() to its return or throw
HandlerOutcome(t, reply) ==
    IF reply.kind = "rejected"
    THEN Thrown(JsError("TypeError", <<Lit("fetch failed")>>))
    ELSE IF ~ResponseOk(reply)
    THEN IF reply.body.kind = "aborted"
         THEN Thrown(JsError("TypeError", <<Lit("terminated")>>))
         ELSE Thrown(JsError("Error",
                  <<Lit(t.failMsg), Lit(NumToStr(reply.status)), Lit(" "),
                    BodyText(reply.body)>>))
    ELSE CASE reply.body.kind = "aborted" ->
                Thrown(JsError("TypeError", <<Lit("terminated")>>))
           [] reply.body.kind = "text" ->
                Thrown(JsError("SyntaxError", <<Lit("Unexpected token")>>))
           [] reply.body.kind = "json" -> Shape(t, reply.body.doc)

(***************************************************************************)
(* The host and the upstream service: the arguments a host sends and the   *)
(* replies the upstream gives.                                             *)
(***************************************************************************)
RECURSIVE Core(_)
Core(d) == IF d.t \in {"optional", "default"} THEN Core(d.inner) ELSE d

IsRequired(d) == d.t \notin {"optional", "default"}

HasUrlCheck(c) == \E n \in 1..Len(c.checks) : c.checks[n].op = "url"

\* a value the schema accepts
RECURSIVE Sample(_)
Sample(d) ==
    LET c == Core(d)
    IN  CASE c.t = "string"  ->
               IF HasUrlCheck(c) THEN Str("https://example.com/a") ELSE Str("x")
          [] c.t = "number"  ->
               Num(CHOOSE n \in {3} \cup {c.checks[m].n : m \in 1..Len(c.checks)} :
                       \A m \in 1..Len(c.checks) : CheckOk(c.checks[m], Num(n)))
          [] c.t = "boolean" -> Bool(TRUE)
          [] c.t = "any"     -> Str("x")
          [] c.t = "enum"    -> Str(CHOOSE m \in c.vals : TRUE)
          [] c.t = "array"   -> Arr(<<Sample(c.elem)>>)
          [] c.t = "record"  -> Obj([p |-> Sample(c.elem)])
          [] c.t = "object"  ->
               Obj([f \in {g \in DOMAIN c.shape : IsRequired(c.shape[g])} |->
                       Sample(c.shape[f])])

\* a value of another type than the schema declares
Wrong(d) ==
    LET c == Core(d)
    IN  CASE c.t \in {"string", "enum"} -> Num(7)
          [] c.t = "number"             -> Str("7")
          [] OTHER                      -> Str("true")

\* an object with one property replaced or added
With(o, f, v) == Obj([g \in DOMAIN o.o \cup {f} |-> IF g = f THEN v ELSE o.o[g]])

\* what a host may send for one argument (Undef: the argument is left out)
Candidates(d) ==
    LET c == Core(d)
        s == Sample(d)
    IN  {Undef, s, Wrong(d)} \cup
        CASE c.t = "string"  ->
               IF HasUrlCheck(c) THEN {Str("not a url")} ELSE {Null}
          [] c.t = "number"  ->
               {Num(0)} \cup UNION {{Num(c.checks[m].n - 1), Num(c.checks[m].n),
                                     Num(c.checks[m].n + 1)} : m \in 1..Len(c.checks)}
          [] c.t = "boolean" -> {Bool(FALSE)}
          [] c.t = "enum"    ->
               LET others == {n \in c.vals : Str(n) # s}
               IN  IF others = {} THEN {Str("zzz")}
                   ELSE {Str("zzz"), Str(CHOOSE n \in others : TRUE)}
          [] c.t = "array"   ->
               {Arr([i \in 1..n |-> Sample(c.elem)]) : n \in 0..MaxArr}
                 \cup {Arr(<<Wrong(c.elem)>>)}
          [] c.t = "record"  -> {EmptyObj}
          [] c.t = "object"  ->
               {EmptyObj, With(s, "undeclared", Str("x"))} \cup
               UNION {{With(s, f, Sample(c.shape[f])), With(s, f, Wrong(c.shape[f]))} :
                         f \in DOMAIN c.shape}
          [] OTHER           -> {}

\* an alternative of a cross-field precondition: left out, empty, given
AltCandidates(d) ==
    LET c == Core(d)
    IN  {Undef, Sample(d), IF c.t = "array" THEN Arr(<<>>) ELSE Str("")}

\* the arguments object: the properties that were given a value
Arguments(f) == Obj([g \in {h \in DOMAIN f : f[h].k # "undefined"} |-> f[g]])

Elements(seq) == {seq[n] : n \in 1..Len(seq)}

\* the arguments a host sends to a tool. Every required argument is valid.
\* Either the precondition's alternatives take every combination, or the
\* first alternative is given and at most dev other arguments are varied;
\* or the host sends no arguments at all
HostArgs(t, dev) ==
    LET shape   == t.schema.shape
        alts    == Elements(t.alts)
        others  == DOMAIN shape \ alts
        base    == [f \in others |->
                       IF IsRequired(shape[f]) THEN Sample(shape[f]) ELSE Undef]
        altBase == [a \in alts |-> IF a = t.alts[1] THEN Sample(shape[a]) ELSE Undef]
        pool    == UNION {Candidates(shape[f]) : f \in others}
    IN  {Undef} \cup
        { Arguments(g @@ base) :
            g \in {x \in [alts -> UNION {AltCandidates(shape[a]) : a \in alts}] :
                      \A a \in alts : x[a] \in AltCandidates(shape[a])} } \cup
        { Arguments(h @@ altBase @@ base) :
            h \in UNION {{x \in [S -> pool] : \A f \in S : x[f] \in Candidates(shape[f])} :
                            S \in {T \in SUBSET others : Cardinality(T) <= dev}} }

\* the arguments of the host with concurrent invocations: none, the required
\* ones alone, the required ones with the first alternative
ProbeArgs(t) ==
    LET shape  == t.schema.shape
        alts   == Elements(t.alts)
        base   == [f \in DOMAIN shape \ alts |->
                      IF IsRequired(shape[f]) THEN Sample(shape[f]) ELSE Undef]
    IN  {Undef, Arguments(base)} \cup
        {Arguments([a \in {t.alts[n]} |-> Sample(shape[a])] @@ base) :
            n \in {m \in {1} : m <= Len(t.alts)}}

(***************************************************************************)
(* Upstream replies.                                                       *)
(***************************************************************************)
Text150 ==
    LET text10 == "QUJDREVGR0"
        text50 == text10 \o text10 \o text10 \o text10 \o text10
    IN  text50 \o text50 \o text50
Base64(n) == Str(Substring0(Text150, n))

OkStatuses  == {200, 299}
ErrStatuses == {300, 404, 500}

Scraped == Obj([title |-> Str("T2"), link |-> Str("https://b.io"),
                snippet |-> Str("s2"), position |-> Num(2), date |-> Str("today"),
                scrapeOutput |-> Obj([title |-> Str("T2"), format |-> Str("markdown"),
                                      content |-> Str("# page")])])
Unscraped == Obj([title |-> Str("T1"), link |-> Str("https://a.io"),
                  snippet |-> Str("s1"), position |-> Num(1),
                  sitelinks |-> Arr(<<>>)])

Falsy == {Null, Str(""), Num(0), Bool(FALSE)}

\* the values an upstream document may carry under the property an entry
\* of the shaper reads (Undef: the property is absent)
PropertyValues(e) ==
    {Undef} \cup Falsy \cup
    CASE e.op \in {"trunc", "truncOrNull"} ->
           {Base64(n) : n \in {1, PreviewLen - 1, PreviewLen, PreviewLen + 1, 150}}
             \cup {Num(7)}
      [] e.op = "organic" ->
           { Arr(<<>>), Arr(<<Unscraped>>), Arr(<<Unscraped, Scraped>>),
             Arr(<<Scraped, Unscraped>>), Arr(<<Null>>), Arr(<<EmptyObj>>),
             Arr(<<With(Unscraped, "scrapeOutput", Null)>>),
             Arr(<<With(Unscraped, "scrapeOutput", Str("raw"))>>),
             Str("none") }
      [] e.op = "images" ->
           { Arr(<<>>), Arr(<<Base64(150)>>), Arr(<<Base64(3), Base64(PreviewLen + 1)>>),
             Arr(<<Num(7)>>), Str("none") }
      [] OTHER ->
           { Str("text"), Num(7), Arr(<<>>), EmptyObj, Obj([a |-> Str("b")]) }

\* the value a well-formed document carries under that property
Typical(e) ==
    CASE e.op \in {"trunc", "truncOrNull"} -> Base64(150)
      [] e.op = "organic" -> Arr(<<Unscraped, Scraped>>)
      [] e.op = "images"  -> Arr(<<Base64(150), Base64(3)>>)
      [] OTHER            -> Str("text")

\* the properties of an endpoint's documents that some revision's shaper
\* reads: the upstream is the same service whichever revision calls it
DocShape(t) ==
    IF t.name \in ToolNames("part_001") THEN ToolDef("part_001", t.name).shape
    ELSE t.shape

\* a well-formed document for a tool, with a property no shaper reads
FullDoc(t) ==
    LET sh == DocShape(t)
        froms == {sh[n].from : n \in 1..Len(sh)}
        at(f) == CHOOSE n \in 1..Len(sh) : sh[n].from = f
    IN  Obj([f \in froms \cup {"creditUsage"} |->
               IF f \in froms THEN Typical(sh[at(f)]) ELSE Num(1)])

\* the JSON documents the upstream may answer a tool with
Docs(t) ==
    {Null, Str("plain"), EmptyObj, FullDoc(t)} \cup
    UNION { { Arguments([FullDoc(t).o EXCEPT ![DocShape(t)[n].from] = v]) :
                v \in PropertyValues(DocShape(t)[n]) } : n \in 1..Len(DocShape(t)) }

ErrorBodies(t) == {TextBody("server error"), TextBody(""), AbortedBody,
                   JsonBody(Obj([error |-> Str("server error")]))}

\* everything fetch() may settle with
Replies(t) ==
    {Rejected}
      \cup {Response(s, b) : s \in OkStatuses,
                             b \in ErrorBodies(t) \cup {JsonBody(d) : d \in Docs(t)}}
      \cup {Response(s, b) : s \in ErrStatuses, b \in ErrorBodies(t)}

\* the replies of the scenario with concurrent invocations
ProbeReplies(t) ==
    {Rejected, Response(500, TextBody("server error")),
     Response(200, JsonBody(FullDoc(t)))}

(***************************************************************************)
(* The server process.                                                     *)
(***************************************************************************)
VARIABLES
    build,       \* the revision of the program that runs
    scenario,    \* what the host does: "single" or "concurrent"
    apiKey,      \* process.env.DUMPLING_API_KEY
    registered,  \* the tool names the server object holds
    phase,       \* "starting", "running" or "exited"
    transport,   \* "closed", "open" or "failed"
    exitCode,    \* the statuses passed to process.exit, none while alive
    stdout,      \* the chunks written to standard output
    stderr,      \* the chunks written to standard error
    listed,      \* the replies to tools/list: none, or the last one
    calls,       \* per request id: the invocation in the dispatcher/handler
    net          \* per request id: the HTTP exchange of its handler

vars == <<build, scenario, apiKey, registered, phase, transport, exitCode,
          stdout, stderr, listed, calls, net>>

\* the request ids a host uses in a scenario
Ids(s) == IF s = "single" THEN {1} ELSE 1..MaxCalls

\* the tools the host of the concurrent scenario invokes
ProbeTools == {"search", "get-google-reviews"}

EnvValues == {Undef, Str(""), Str("sk-dumpling")}

Gone == [k |-> "gone"]

Pending       == [kind |-> "pending"]
Success(text) == [kind |-> "result", content |-> <<[type |-> "text", text |-> text]>>]
Failure(err)  == [kind |-> "error", name |-> err.name, message |-> err.message]

IdleCall == [st |-> "idle", tool |-> "", raw |-> Gone, input |-> Gone,
             out |-> Pending, ran |-> FALSE, nresp |-> 0]
IdleNet  == [st |-> "idle", req |-> Gone, reply |-> Gone, sent |-> 0]

Banner     == [frame |-> "text", text |-> "Dumpling AI MCP Server running on stdio"]
Frame(id, isError) == [frame |-> "jsonrpc", id |-> id, isError |-> isError]
ListFrame  == [frame |-> "jsonrpc", method |-> "tools/list"]

\* tools/list: every registered tool with its input schema
Listing(b, names) ==
    {[name |-> n, inputSchema |-> ToolDef(b, n).schema] : n \in names}

Init ==
    /\ build \in Builds
    /\ scenario \in {"single", "concurrent"}
    /\ apiKey \in EnvValues
    /\ registered = ToolNames(build)
    /\ phase = "starting"
    /\ transport = "closed"
    /\ exitCode = <<>>
    /\ stdout = {}
    /\ stderr = {}
    /\ listed = <<>>
    /\ calls = [i \in 1..MaxCalls |-> IdleCall]
    /\ net = [i \in 1..MaxCalls |-> IdleNet]

\* a main() that reads the credential and gives up without it
Main_NeedsKey ==
    /\ phase = "starting"
    /\ IF Truthy(apiKey)
       THEN /\ transport' = "open"
            /\ phase' = "running"
            /\ stdout' = stdout \cup {Banner}
            /\ UNCHANGED <<stderr, exitCode>>
       ELSE /\ transport' = "closed"
            /\ phase' = "exited"
            /\ exitCode' = <<1>>
            /\ stderr' = stderr \cup {[frame |-> "text", text |-> "Fatal error in main():"]}
            /\ UNCHANGED stdout
    /\ UNCHANGED <<build, scenario, apiKey, registered, listed, calls, net>>

\* a main() whose rejection is swallowed: nothing is logged and the process
\* stays up without a transport
Main_Swallows ==
    /\ phase = "starting"
    /\ \E connected \in BOOLEAN :
          IF connected
          THEN /\ transport' = "open"
               /\ phase' = "running"
               /\ stdout' = stdout \cup {Banner}
          ELSE /\ transport' = "failed"
               /\ phase' = "running"
               /\ UNCHANGED stdout
    /\ UNCHANGED <<build, scenario, apiKey, registered, exitCode, stderr, listed,
                   calls, net>>

\* main(): connect the stdio transport, then log; a rejection is caught by
\* main().catch, which logs and exits with status 1
Main ==
    /\ phase = "starting"
    /\ \E connected \in BOOLEAN :
          IF connected
          THEN /\ transport' = "open"
               /\ phase' = "running"
               /\ stdout' = stdout \cup {Banner}
               /\ UNCHANGED <<stderr, exitCode>>
          ELSE /\ transport' = "failed"
               /\ phase' = "exited"
               /\ exitCode' = <<1>>
               /\ stderr' = stderr \cup {[frame |-> "text", text |-> "Fatal error in main():"]}
               /\ UNCHANGED stdout
    /\ UNCHANGED <<build, scenario, apiKey, registered, listed, calls, net>>

\* the host asks for the tools (the host of the single scenario calls a tool
\* it knows by name and does not ask)
ListTools ==
    /\ phase = "running"
    /\ scenario = "concurrent"
    /\ listed' = <<Listing(build, registered)>>
    /\ stdout' = stdout \cup {ListFrame}
    /\ UNCHANGED <<build, scenario, apiKey, registered, phase, transport, exitCode,
                   stderr, calls, net>>

\* the values the environment variable is given while the server runs: it is
\* unset, or set to a new credential
LaterEnvValues == {Undef, Str("sk-rotated")}

\* process.env.DUMPLING_API_KEY is given another value between two
\* invocations: the first has been answered and the others are still to come
SetEnv ==
    /\ phase = "running"
    /\ scenario = "concurrent"
    /\ calls[1].st \in {"Responded", "Failed"}
    /\ \A i \in 2..MaxCalls : calls[i].st = "idle"
    /\ \E v \in LaterEnvValues \ {apiKey} : apiKey' = v
    /\ UNCHANGED <<build, scenario, registered, phase, transport, exitCode,
                   stdout, stderr, listed, calls, net>>

\* the tools and arguments the host of a scenario uses
HostTools(s, b) ==
    IF s = "single" THEN ToolNames(b) \cup {"no-such-tool"} ELSE ProbeTools

HostInputs(s, b, name) ==
    IF name \notin ToolNames(b) THEN {EmptyObj}
    ELSE IF s = "single" THEN HostArgs(ToolDef(b, name), MaxDeviations)
    ELSE ProbeArgs(ToolDef(b, name))

UpstreamReplies(s, t) == IF s = "single" THEN Replies(t) ELSE ProbeReplies(t)

\* a tools/call request arrives
Receive(i) ==
    /\ phase = "running"
    /\ i \in Ids(scenario)
    /\ calls[i].st = "idle"
    /\ \E name \in HostTools(scenario, build) :
         \E raw \in HostInputs(scenario, build, name) :
            calls' = [calls EXCEPT ![i] =
                        [IdleCall EXCEPT !.st = "Received", !.tool = name, !.raw = raw]]
    /\ UNCHANGED <<build, scenario, apiKey, registered, phase, transport, exitCode,
                   stdout, stderr, listed, net>>

\* the reply to request i: an error reply
Fail(i, err) ==
    /\ calls' = [calls EXCEPT ![i].st = "Failed", ![i].out = Failure(err),
                              ![i].nresp = @ + 1]
    /\ stdout' = stdout \cup {Frame(i, TRUE)}

\* a dispatcher that hands the raw arguments to the handler unparsed
Dispatch_Unvalidated(i) ==
    /\ phase = "running"
    /\ calls[i].st = "Received"
    /\ calls' = [calls EXCEPT ![i].st = "Validated", ![i].raw = Gone,
                              ![i].input = calls[i].raw]
    /\ UNCHANGED <<build, scenario, apiKey, registered, phase, transport, exitCode,
                   stdout, stderr, listed, net>>

\* a dispatcher that validates the arguments and then hands the handler the
\* arguments as the host sent them
Dispatch_ArgumentsAsSent(i) ==
    /\ phase = "running"
    /\ calls[i].st = "Received"
    /\ IF calls[i].tool \notin registered
       THEN Fail(i, JsError("McpError", <<Lit("Tool "), Lit(calls[i].tool), Lit(" not found")>>))
       ELSE \E p \in {SafeParse(ToolDef(build, calls[i].tool).schema, calls[i].raw)} :
                IF p.ok
                THEN /\ calls' = [calls EXCEPT ![i].st = "Validated",
                                               ![i].raw = Gone, ![i].input = calls[i].raw]
                     /\ UNCHANGED stdout
                ELSE Fail(i, JsError("McpError", <<Lit("Invalid arguments for tool "),
                                                   Lit(calls[i].tool)>>))
    /\ UNCHANGED <<build, scenario, apiKey, registered, phase, transport, exitCode,
                   stderr, listed, net>>

\* a dispatcher that answers a call of a tool it does not hold with an empty
\* result
Dispatch_UnknownIgnored(i) ==
    /\ phase = "running"
    /\ calls[i].st = "Received"
    /\ IF calls[i].tool \notin registered
       THEN /\ calls' = [calls EXCEPT ![i].st = "Responded", ![i].nresp = @ + 1,
                                      ![i].out = Success(Stringify(Null))]
            /\ stdout' = stdout \cup {Frame(i, FALSE)}
       ELSE \E p \in {SafeParse(ToolDef(build, calls[i].tool).schema, calls[i].raw)} :
                IF p.ok
                THEN /\ calls' = [calls EXCEPT ![i].st = "Validated",
                                               ![i].raw = Gone, ![i].input = p.val]
                     /\ UNCHANGED stdout
                ELSE Fail(i, JsError("McpError", <<Lit("Invalid arguments for tool "),
                                                   Lit(calls[i].tool)>>))
    /\ UNCHANGED <<build, scenario, apiKey, registered, phase, transport, exitCode,
                   stderr, listed, net>>

\* the dispatcher looks the tool up and parses the arguments with its schema
Dispatch(i) ==
    /\ phase = "running"
    /\ calls[i].st = "Received"
    /\ IF calls[i].tool \notin registered
       THEN Fail(i, JsError("McpError", <<Lit("Tool "), Lit(calls[i].tool), Lit(" not found")>>))
       ELSE \E p \in {SafeParse(ToolDef(build, calls[i].tool).schema, calls[i].raw)} :
                IF p.ok
                THEN /\ calls' = [calls EXCEPT ![i].st = "Validated",
                                               ![i].raw = Gone, ![i].input = p.val]
                     /\ UNCHANGED stdout
                ELSE Fail(i, JsError("McpError", <<Lit("Invalid arguments for tool "),
                                                   Lit(calls[i].tool)>>))
    /\ UNCHANGED <<build, scenario, apiKey, registered, phase, transport, exitCode,
                   stderr, listed, net>>

\* a handler that reads the credential before it checks its precondition
HandlerStart_KeyFirst(i) ==
    /\ phase = "running"
    /\ calls[i].st = "Validated"
    /\ LET t == ToolDef(build, calls[i].tool)
           ran == [calls EXCEPT ![i].ran = TRUE]
       IN  IF ~Truthy(apiKey)
           THEN /\ calls' = [ran EXCEPT ![i].st = "Failed", ![i].nresp = @ + 1,
                                        ![i].input = Gone,
                                        ![i].out = Failure(JsError("Error", <<Lit(t.keyMsg)>>))]
                /\ stdout' = stdout \cup {Frame(i, TRUE)}
                /\ UNCHANGED net
           ELSE IF PreconditionFails(t, calls[i].input)
           THEN /\ calls' = [ran EXCEPT ![i].st = "Failed", ![i].nresp = @ + 1,
                                        ![i].input = Gone,
                                        ![i].out = Failure(JsError("Error", <<Lit(t.altMsg)>>))]
                /\ stdout' = stdout \cup {Frame(i, TRUE)}
                /\ UNCHANGED net
           ELSE /\ calls' = [ran EXCEPT ![i].st = "Executing", ![i].input = Gone]
                /\ \E req \in {Request(t, calls[i].input, apiKey)} :
                      net' = [net EXCEPT ![i] = [st |-> "inflight", reply |-> Gone,
                                                sent |-> @.sent + 1, req |-> req]]
                /\ UNCHANGED stdout
    /\ UNCHANGED <<build, scenario, apiKey, registered, phase, transport, exitCode,
                   stderr, listed>>

\* a handler whose validated arguments are kept after it has thrown
HandlerStart_Retains(i) ==
    /\ phase = "running"
    /\ calls[i].st = "Validated"
    /\ LET t == ToolDef(build, calls[i].tool)
           ran == [calls EXCEPT ![i].ran = TRUE]
       IN  IF PreconditionFails(t, calls[i].input)
           THEN /\ calls' = [ran EXCEPT ![i].st = "Failed", ![i].nresp = @ + 1,
                                        ![i].out = Failure(JsError("Error", <<Lit(t.altMsg)>>))]
                /\ stdout' = stdout \cup {Frame(i, TRUE)}
                /\ UNCHANGED net
           ELSE IF ~Truthy(apiKey)
           THEN /\ calls' = [ran EXCEPT ![i].st = "Failed", ![i].nresp = @ + 1,
                                        ![i].out = Failure(JsError("Error", <<Lit(t.keyMsg)>>))]
                /\ stdout' = stdout \cup {Frame(i, TRUE)}
                /\ UNCHANGED net
           ELSE /\ calls' = [ran EXCEPT ![i].st = "Executing", ![i].input = Gone]
                /\ \E req \in {Request(t, calls[i].input, apiKey)} :
                      net' = [net EXCEPT ![i] = [st |-> "inflight", reply |-> Gone,
                                                sent |-> @.sent + 1, req |-> req]]
                /\ UNCHANGED stdout
    /\ UNCHANGED <<build, scenario, apiKey, registered, phase, transport, exitCode,
                   stderr, listed>>

\* a handler that sends a credential fixed in the program instead of reading
\* the environment
HandlerStart_FixedKey(i) ==
    /\ phase = "running"
    /\ calls[i].st = "Validated"
    /\ LET t == ToolDef(build, calls[i].tool)
           ran == [calls EXCEPT ![i].ran = TRUE]
       IN  IF PreconditionFails(t, calls[i].input)
           THEN /\ calls' = [ran EXCEPT ![i].st = "Failed", ![i].nresp = @ + 1,
                                        ![i].input = Gone,
                                        ![i].out = Failure(JsError("Error", <<Lit(t.altMsg)>>))]
                /\ stdout' = stdout \cup {Frame(i, TRUE)}
                /\ UNCHANGED net
           ELSE /\ calls' = [ran EXCEPT ![i].st = "Executing", ![i].input = Gone]
                /\ \E req \in {Request(t, calls[i].input, Str("sk-dumpling"))} :
                      net' = [net EXCEPT ![i] = [st |-> "inflight", reply |-> Gone,
                                                sent |-> @.sent + 1, req |-> req]]
                /\ UNCHANGED stdout
    /\ UNCHANGED <<build, scenario, apiKey, registered, phase, transport, exitCode,
                   stderr, listed>>

\* the handler up to its first await: precondition, credential, fetch(); its
\* arguments are gone once it has thrown or built its request
HandlerStart(i) ==
    /\ phase = "running"
    /\ calls[i].st = "Validated"
    /\ LET t == ToolDef(build, calls[i].tool)
           ran == [calls EXCEPT ![i].ran = TRUE]
       IN  IF PreconditionFails(t, calls[i].input)
           THEN /\ calls' = [ran EXCEPT ![i].st = "Failed", ![i].nresp = @ + 1,
                                        ![i].input = Gone,
                                        ![i].out = Failure(JsError("Error", <<Lit(t.altMsg)>>))]
                /\ stdout' = stdout \cup {Frame(i, TRUE)}
                /\ UNCHANGED net
           ELSE IF ~Truthy(apiKey)
           THEN /\ calls' = [ran EXCEPT ![i].st = "Failed", ![i].nresp = @ + 1,
                                        ![i].input = Gone,
                                        ![i].out = Failure(JsError("Error", <<Lit(t.keyMsg)>>))]
                /\ stdout' = stdout \cup {Frame(i, TRUE)}
                /\ UNCHANGED net
           ELSE /\ calls' = [ran EXCEPT ![i].st = "Executing", ![i].input = Gone]
                /\ \E req \in {Request(t, calls[i].input, apiKey)} :
                      net' = [net EXCEPT ![i] = [st |-> "inflight", reply |-> Gone,
                                                sent |-> @.sent + 1, req |-> req]]
                /\ UNCHANGED stdout
    /\ UNCHANGED <<build, scenario, apiKey, registered, phase, transport, exitCode,
                   stderr, listed>>

\* fetch() settles: the upstream answers, or the connection fails
FetchSettles(i) ==
    /\ phase = "running"
    /\ net[i].st = "inflight"
    /\ \E r \in UpstreamReplies(scenario, ToolDef(build, calls[i].tool)) :
          net' = [net EXCEPT ![i].st = "settled", ![i].req = Gone, ![i].reply = r]
    /\ UNCHANGED <<build, scenario, apiKey, registered, phase, transport, exitCode,
                   stdout, stderr, listed, calls>>

\* a handler that resumes with the reply of the oldest settled exchange
HandlerResume_CrossTalk(i) ==
    /\ phase = "running"
    /\ calls[i].st = "Executing"
    /\ net[i].st = "settled"
    /\ LET t == ToolDef(build, calls[i].tool)
           o == HandlerOutcome(t, net[CHOOSE j \in DOMAIN net : net[j].st = "settled" /\ \A k \in DOMAIN net : net[k].st = "settled" => j <= k].reply)
       IN  IF o.thrown
           THEN /\ calls' = [calls EXCEPT ![i].st = "Failed", ![i].nresp = @ + 1,
                                          ![i].out = Failure(o.err)]
                /\ stdout' = stdout \cup {Frame(i, TRUE)}
                /\ stderr' = IF t.logs
                             THEN stderr \cup {[frame |-> "text", text |-> t.logMsg]}
                             ELSE stderr
           ELSE /\ calls' = [calls EXCEPT ![i].st = "Responded", ![i].nresp = @ + 1,
                                          ![i].out = Success(o.text)]
                /\ stdout' = stdout \cup {Frame(i, FALSE)}
                /\ UNCHANGED stderr
    /\ UNCHANGED <<build, scenario, apiKey, registered, phase, transport, exitCode,
                   listed, net>>

\* a handler that shapes an empty document without awaiting the reply
HandlerResume_Early(i) ==
    /\ phase = "running"
    /\ calls[i].st = "Executing"
    /\ net[i].st \in {"inflight", "settled"}
    /\ LET t == ToolDef(build, calls[i].tool)
           o == HandlerOutcome(t, IF net[i].st = "settled" THEN net[i].reply ELSE Response(200, JsonBody(EmptyObj)))
       IN  IF o.thrown
           THEN /\ calls' = [calls EXCEPT ![i].st = "Failed", ![i].nresp = @ + 1,
                                          ![i].out = Failure(o.err)]
                /\ stdout' = stdout \cup {Frame(i, TRUE)}
                /\ stderr' = IF t.logs
                             THEN stderr \cup {[frame |-> "text", text |-> t.logMsg]}
                             ELSE stderr
           ELSE /\ calls' = [calls EXCEPT ![i].st = "Responded", ![i].nresp = @ + 1,
                                          ![i].out = Success(o.text)]
                /\ stdout' = stdout \cup {Frame(i, FALSE)}
                /\ UNCHANGED stderr
    /\ UNCHANGED <<build, scenario, apiKey, registered, phase, transport, exitCode,
                   listed, net>>

\* a handler whose failure after the fetch is never reported to the host
HandlerResume_Silent(i) ==
    /\ phase = "running"
    /\ calls[i].st = "Executing"
    /\ net[i].st = "settled"
    /\ ~HandlerOutcome(ToolDef(build, calls[i].tool), net[i].reply).thrown
    /\ calls' = [calls EXCEPT ![i].st = "Responded", ![i].nresp = @ + 1,
                     ![i].out = Success(HandlerOutcome(ToolDef(build, calls[i].tool),
                                                       net[i].reply).text)]
    /\ stdout' = stdout \cup {Frame(i, FALSE)}
    /\ UNCHANGED <<build, scenario, apiKey, registered, phase, transport, exitCode,
                   stderr, listed, net>>

\* a handler whose error after the fetch is uncaught and ends the process
HandlerResume_Fatal(i) ==
    /\ phase = "running"
    /\ calls[i].st = "Executing"
    /\ net[i].st = "settled"
    /\ \E o \in {HandlerOutcome(ToolDef(build, calls[i].tool), net[i].reply)} :
          IF o.thrown
          THEN /\ calls' = [calls EXCEPT ![i].st = "Failed", ![i].out = Failure(o.err)]
               /\ phase' = "exited"
               /\ exitCode' = <<1>>
               /\ stderr' = stderr \cup {[frame |-> "text", text |-> "Uncaught"]}
               /\ UNCHANGED stdout
          ELSE /\ calls' = [calls EXCEPT ![i].st = "Responded", ![i].nresp = @ + 1,
                                         ![i].out = Success(o.text)]
               /\ stdout' = stdout \cup {Frame(i, FALSE)}
               /\ UNCHANGED <<stderr, phase, exitCode>>
    /\ UNCHANGED <<build, scenario, apiKey, registered, transport, listed, net>>

\* a handler that sends its request once more after a failed exchange
HandlerResume_Retry(i) ==
    /\ phase = "running"
    /\ calls[i].st = "Executing"
    /\ net[i].st = "settled"
    /\ \E o \in {HandlerOutcome(ToolDef(build, calls[i].tool), net[i].reply)} :
          IF o.thrown /\ net[i].sent < 2
          THEN /\ net' = [net EXCEPT ![i].st = "inflight", ![i].reply = Gone,
                                     ![i].sent = @ + 1]
               /\ UNCHANGED <<calls, stdout, stderr>>
          ELSE IF o.thrown
          THEN /\ calls' = [calls EXCEPT ![i].st = "Failed", ![i].nresp = @ + 1,
                                         ![i].out = Failure(o.err)]
               /\ stdout' = stdout \cup {Frame(i, TRUE)}
               /\ UNCHANGED <<stderr, net>>
          ELSE /\ calls' = [calls EXCEPT ![i].st = "Responded", ![i].nresp = @ + 1,
                                         ![i].out = Success(o.text)]
               /\ stdout' = stdout \cup {Frame(i, FALSE)}
               /\ UNCHANGED <<stderr, net>>
    /\ UNCHANGED <<build, scenario, apiKey, registered, phase, transport, exitCode,
                   listed>>

\* the handler from the settled fetch() to its end, and the reply to the host
HandlerResume(i) ==
    /\ phase = "running"
    /\ calls[i].st = "Executing"
    /\ net[i].st = "settled"
    /\ \E o \in {HandlerOutcome(ToolDef(build, calls[i].tool), net[i].reply)} :
          IF o.thrown
          THEN /\ calls' = [calls EXCEPT ![i].st = "Failed", ![i].nresp = @ + 1,
                                         ![i].out = Failure(o.err)]
               /\ stdout' = stdout \cup {Frame(i, TRUE)}
               /\ stderr' = IF ToolDef(build, calls[i].tool).logs
                            THEN stderr \cup {[frame |-> "text",
                                               text |-> ToolDef(build, calls[i].tool).logMsg]}
                            ELSE stderr
          ELSE /\ calls' = [calls EXCEPT ![i].st = "Responded", ![i].nresp = @ + 1,
                                         ![i].out = Success(o.text)]
               /\ stdout' = stdout \cup {Frame(i, FALSE)}
               /\ UNCHANGED stderr
    /\ UNCHANGED <<build, scenario, apiKey, registered, phase, transport, exitCode,
                   listed, net>>

Next ==
    \/ Main
    \/ ListTools
    \/ SetEnv
    \/ \E i \in 1..MaxCalls : Receive(i)
    \/ \E i \in 1..MaxCalls : Dispatch(i)
    \/ \E i \in 1..MaxCalls : HandlerStart(i)
    \/ \E i \in 1..MaxCalls : FetchSettles(i)
    \/ \E i \in 1..MaxCalls : HandlerResume(i)

Spec == Init /\ [][Next]_vars

\* the event loop runs every continuation that is ready, and fetch() settles:
\* the upstream answers or the HTTP client's default timeouts reject it.
\* The host is the one with concurrent invocations.
FairInit == Init /\ scenario = "concurrent"

FairSpec ==
    /\ FairInit
    /\ [][Next]_vars
    /\ \A i \in 1..MaxCalls :
          /\ WF_vars(Dispatch(i))
          /\ WF_vars(HandlerStart(i))
          /\ WF_vars(FetchSettles(i))
          /\ WF_vars(HandlerResume(i))

(***************************************************************************)
(* Properties.                                                             *)
(***************************************************************************)
\* the kind of value a declaration accepts
KindOf(c) ==
    CASE c.t \in {"string", "enum"} -> "string"
      [] c.t = "number"             -> "number"
      [] c.t = "boolean"            -> "boolean"
      [] c.t = "array"              -> "array"
      [] OTHER                      -> "object"

\* the arguments break the schema at an argument: a required one is left
\* out, one has the wrong type, or one is outside its enumerated set
BreaksSchema(schema, raw) ==
    \/ raw.k # "object"
    \/ \E f \in DOMAIN schema.shape :
          LET c == Core(schema.shape[f])
              v == Prop(raw, f)
          IN  \/ IsRequired(schema.shape[f]) /\ c.t # "any" /\ v.k = "undefined"
              \/ v.k # "undefined" /\ c.t # "any" /\ v.k # KindOf(c)
              \/ c.t = "enum" /\ v.k = "string" /\ v.s \notin c.vals

\* the arguments of invocation i do not conform to the schema of its tool
Nonconforming(i) ==
    /\ calls[i].tool \in registered
    /\ \/ BreaksSchema(ToolDef(build, calls[i].tool).schema, calls[i].raw)
       \/ ~SafeParse(ToolDef(build, calls[i].tool).schema, calls[i].raw).ok

IsValidationError(out) ==
    /\ out.kind = "error"
    /\ out.name = "McpError"
    /\ out.message[1] = Lit("Invalid arguments for tool ")

\* C1: an invocation of a registered tool whose arguments violate the tool's
\* schema (wrong type, missing required argument, value outside an enumerated
\* set) is answered with a validation error; its handler never runs and no
\* HTTP request is ever made for it.
C1_InvalidArgumentsRejected ==
    /\ [][\A i \in 1..MaxCalls :
            (calls[i].st = "Received" /\ Nonconforming(i) /\ calls'[i] # calls[i])
               => /\ calls'[i].st = "Failed"
                  /\ IsValidationError(calls'[i].out)
                  /\ ~calls'[i].ran
                  /\ net' = net]_vars
    /\ [](\A i \in 1..MaxCalls :
            (calls[i].st = "Failed" /\ IsValidationError(calls[i].out))
               => ~calls[i].ran /\ net[i].sent = 0 /\ net[i].st = "idle")

\* a tool was invoked with a credential set and with arguments that break its
\* schema at an argument, and the invocation has been answered
C1_Witness ==
    \E i \in 1..MaxCalls :
       /\ calls[i].st = "Failed"
       /\ Truthy(apiKey)
       /\ calls[i].tool \in registered
       /\ calls[i].raw # Gone
       /\ calls[i].raw.k = "object"
       /\ BreaksSchema(ToolDef(build, calls[i].tool).schema, calls[i].raw)

\* C6: tools/list answers with every registered tool and its schema whatever
\* the credential is, and the process never exits for lack of a credential:
\* it exits only when the transport failed to connect.
C6_ListingNeedsNoCredential ==
    /\ \A n \in 1..Len(listed) :
          /\ {e.name : e \in listed[n]} = ToolNames(build)
          /\ \A e \in listed[n] : e.inputSchema = ToolDef(build, e.name).schema
    /\ phase = "exited" => transport = "failed"
    /\ (phase = "running" /\ ~Truthy(apiKey)) => transport = "open"

\* the tools have been listed by a server started without a credential
C6_Witness ==
    /\ ~Truthy(apiKey)
    /\ phase = "running"
    /\ Len(listed) = 1
    /\ Cardinality(listed[1]) = Len(Registrations(build))

\* C10: nothing but protocol-framed messages is ever written to standard
\* output.
C10_StdoutCarriesOnlyFrames == \A c \in stdout : c.frame = "jsonrpc"

CredentialMessages ==
    {<<Lit("DUMPLING_API_KEY not set")>>,
     <<Lit("DUMPLING_API_KEY environment variable not set")>>}

PreconditionMessages ==
    {<<Lit("Either keyword, cid, or placeId is required")>>,
     <<Lit("Either placeId or businessName is required")>>,
     <<Lit("Either url or base64 is required")>>,
     <<Lit("Either urls or base64Files is required")>>}

IsCredentialError(out) ==
    out.kind = "error" /\ out.name = "Error" /\ out.message \in CredentialMessages

IsPreconditionError(out) ==
    out.kind = "error" /\ out.name = "Error" /\ out.message \in PreconditionMessages

\* the tool of invocation i has a 'one of' requirement
HasAlternatives(i) ==
    /\ calls[i].tool \in registered
    /\ ToolDef(build, calls[i].tool).altKind # "none"

\* the alternatives of its tool that invocation i gives a value
Supplied(i) ==
    {a \in Elements(ToolDef(build, calls[i].tool).alts) :
        Prop(calls[i].input, a).k # "undefined"}

\* those it gives a value that is not empty
NonEmpty(i) ==
    {a \in Supplied(i) : Prop(calls[i].input, a) \notin {Str(""), Arr(<<>>)}}

\* the handler of invocation i, started by this step, issues its request
Issues(i) ==
    /\ calls'[i].st = "Executing"
    /\ net'[i].st = "inflight"
    /\ net'[i].sent = net[i].sent + 1

\* the handler of invocation i, started by this step, fails without a request
FailsUnsent(i) ==
    /\ calls'[i].st = "Failed"
    /\ calls'[i].nresp = 1
    /\ net' = net

\* while the credential is unset or empty no request is in flight and no
\* handler waits for one
NeverSentWithoutKey ==
    ~Truthy(apiKey) =>
        \A i \in 1..MaxCalls : /\ net[i].st # "inflight"
                               /\ calls[i].st # "Executing"

\* C2 as stated: with DUMPLING_API_KEY unset or empty, every invocation whose
\* arguments pass validation fails with the missing-credential error and
\* makes no HTTP request.
C2_Original ==
    /\ [][\A i \in 1..MaxCalls :
            (calls[i].st = "Validated" /\ ~Truthy(apiKey) /\ calls'[i] # calls[i])
               => FailsUnsent(i) /\ IsCredentialError(calls'[i].out)]_vars
    /\ []NeverSentWithoutKey

\* C2 amended: with DUMPLING_API_KEY unset or empty, every invocation whose
\* arguments pass validation fails and makes no HTTP request; the error is the
\* missing-credential error, except that a tool with a 'one of' requirement
\* invoked with no non-empty alternative reports its precondition error.
C2_NoRequestWithoutKey ==
    /\ [][\A i \in 1..MaxCalls :
            (calls[i].st = "Validated" /\ ~Truthy(apiKey) /\ calls'[i] # calls[i])
               => /\ FailsUnsent(i)
                  /\ IF HasAlternatives(i) /\ NonEmpty(i) = {}
                     THEN IsPreconditionError(calls'[i].out)
                     ELSE IsCredentialError(calls'[i].out)]_vars
    /\ []NeverSentWithoutKey

\* with an empty credential, one handler has failed for the credential and
\* another for its precondition
C2_Witness ==
    /\ apiKey = Str("")
    /\ \E i, j \in 1..MaxCalls :
          /\ calls[i].st = "Failed" /\ calls[i].ran /\ IsCredentialError(calls[i].out)
          /\ calls[j].st = "Failed" /\ calls[j].ran /\ IsPreconditionError(calls[j].out)
          /\ net[i].sent = 0 /\ net[j].sent = 0

\* C3 as stated: a tool with a 'one of' requirement fails with its precondition
\* error, before any request, when no alternative is supplied, and issues its
\* request when exactly one is supplied and the credential is set.
C3_Original ==
    [][\A i \in 1..MaxCalls :
         (calls[i].st = "Validated" /\ HasAlternatives(i) /\ calls'[i] # calls[i])
            => /\ Supplied(i) = {} =>
                    FailsUnsent(i) /\ IsPreconditionError(calls'[i].out)
               /\ (Cardinality(Supplied(i)) = 1 /\ Truthy(apiKey)) => Issues(i)]_vars

\* C3 amended: a tool whose handler checks a 'one of' requirement fails with
\* its precondition error, before any request, when no alternative has a
\* non-empty value (each is absent, an empty string or an empty array), and
\* issues its request when exactly one alternative has a non-empty value and
\* the credential is set.
C3_OneOfRequirement ==
    [][\A i \in 1..MaxCalls :
         (calls[i].st = "Validated" /\ HasAlternatives(i) /\ calls'[i] # calls[i])
            => /\ NonEmpty(i) = {} =>
                    FailsUnsent(i) /\ IsPreconditionError(calls'[i].out)
               /\ (Cardinality(NonEmpty(i)) = 1 /\ Truthy(apiKey)) => Issues(i)]_vars

\* with the credential set, the handler of a tool with a 'one of' requirement
\* has refused an invocation for its precondition, without a request
C3_Witness ==
    \E i \in 1..MaxCalls :
       /\ Truthy(apiKey)
       /\ calls[i].st = "Failed"
       /\ calls[i].ran
       /\ calls[i].input = Gone
       /\ HasAlternatives(i)
       /\ IsPreconditionError(calls[i].out)
       /\ net[i].sent = 0

\* the upstream answered invocation i with a status outside 200..299
NonOkReply(i) ==
    /\ net[i].st = "settled"
    /\ net[i].reply.kind = "response"
    /\ (net[i].reply.status < 200 \/ net[i].reply.status > 299)

ProjectionOf(r, e) ==
    /\ e.k = "object"
    /\ {"title", "link", "snippet", "position"} \subseteq DOMAIN e.o
    /\ DOMAIN e.o \subseteq {"title", "link", "snippet", "position", "content"}
    /\ \A f \in {"title", "link", "snippet", "position"} : e.o[f] = Prop(r, f)
    /\ "content" \in DOMAIN e.o => Prop(r, "scrapeOutput").k = "object"

\* C5: the result of the search tool for a 2xx JSON document is the
\* projection: searchParameters, organicResults with exactly title, link,
\* snippet, position (and content only where the raw entry has scrapeOutput),
\* and featuredSnippet left out when the raw document has none.
C5_SearchProjection ==
    \A i \in 1..MaxCalls :
       (calls[i].tool = "search" /\ calls[i].st = "Responded"
          /\ Prop(net[i].reply.body.doc, "organic") = Arr(<<Unscraped, Scraped>>))
          => LET doc == net[i].reply.body.doc
                 res == calls[i].out.content[1].text
             IN  /\ res.fmt = "json"
                 /\ res.value.k = "object"
                 /\ "organicResults" \in DOMAIN res.value.o
                 /\ DOMAIN res.value.o \subseteq
                       {"searchParameters", "organicResults", "featuredSnippet",
                        "relatedSearches", "peopleAlsoAsk"}
                 /\ Prop(res.value, "searchParameters") = Prop(doc, "searchParameters")
                 /\ Prop(res.value, "organicResults").k = "array"
                 /\ Len(Prop(res.value, "organicResults").a) = 2
                 /\ ProjectionOf(Unscraped, Prop(res.value, "organicResults").a[1])
                 /\ ProjectionOf(Scraped, Prop(res.value, "organicResults").a[2])
                 /\ "content" \in DOMAIN Prop(res.value, "organicResults").a[2].o
                 /\ Prop(doc, "featuredSnippet").k = "undefined"
                       => "featuredSnippet" \notin DOMAIN res.value.o

\* what the handler of invocation i throws before its request, from its own
\* arguments
StartFailure(i) ==
    LET t == ToolDef(build, calls[i].tool)
    IN  IF PreconditionFails(t, calls[i].input)
        THEN Failure(JsError("Error", <<Lit(t.altMsg)>>))
        ELSE Failure(JsError("Error", <<Lit(t.keyMsg)>>))

\* what an answered invocation i comes to when it runs alone with its own
\* arguments and its own upstream reply (a failure before the request is
\* settled by StartFailure at the step that throws it)
Alone(i) ==
    LET t == ToolDef(build, calls[i].tool)
    IN  IF calls[i].raw # Gone
        THEN IF calls[i].tool \notin registered
             THEN Failure(JsError("McpError", <<Lit("Tool "), Lit(calls[i].tool),
                                                Lit(" not found")>>))
             ELSE Failure(JsError("McpError", <<Lit("Invalid arguments for tool "),
                                                Lit(calls[i].tool)>>))
        ELSE IF net[i].st = "idle"
        THEN calls[i].out
        ELSE IF HandlerOutcome(t, net[i].reply).thrown
             THEN Failure(HandlerOutcome(t, net[i].reply).err)
             ELSE Success(HandlerOutcome(t, net[i].reply).text)

\* C7: invocations whose HTTP calls interleave share no state: a step of one
\* changes nothing of another, each request is built from the invocation's own
\* arguments, and each result or error is the one the invocation produces
\* alone from its own arguments and its own upstream reply.
C7_NoCrossTalk ==
    /\ [][/\ \E i \in 1..MaxCalls :
               \A j \in 1..MaxCalls \ {i} : calls'[j] = calls[j] /\ net'[j] = net[j]
          /\ \A i \in 1..MaxCalls :
               (net'[i].st = "inflight" /\ net[i].st = "idle")
                  => net'[i].req = Request(ToolDef(build, calls[i].tool),
                                           calls[i].input, apiKey)
          /\ \A i \in 1..MaxCalls :
               (calls[i].st = "Validated" /\ calls'[i].st = "Failed")
                  => calls'[i].out = StartFailure(i)]_vars
    /\ [](\A i \in 1..MaxCalls :
             calls[i].st \in {"Responded", "Failed"} => calls[i].out = Alone(i))

\* two invocations of different tools were in flight together, their replies
\* differ, and both have been answered: one with a result, one with an error
C7_Witness ==
    \E i, j \in 1..MaxCalls :
       /\ calls[i].st = "Responded"
       /\ calls[j].st = "Failed"
       /\ calls[i].tool # calls[j].tool
       /\ net[i].st = "settled"
       /\ net[j].st = "settled"
       /\ net[i].reply # net[j].reply

Answered(i) == calls[i].st \in {"Responded", "Failed"}

Transitions ==
    {<<"idle", "Received">>, <<"Received", "Validated">>, <<"Received", "Failed">>,
     <<"Validated", "Executing">>, <<"Validated", "Failed">>,
     <<"Executing", "Responded">>, <<"Executing", "Failed">>}

\* C9: an invocation moves Received -> Validated -> Executing -> Responded,
\* or to Failed from any of the three, and never back: its request is issued
\* only from Validated, its result is shaped only once the HTTP reply has
\* settled, and an answered invocation changes no more.
C9_StepOrder ==
    /\ [][\A i \in 1..MaxCalls :
            /\ calls'[i].st # calls[i].st => <<calls[i].st, calls'[i].st>> \in Transitions
            /\ Answered(i) => calls'[i] = calls[i] /\ net'[i] = net[i]
            /\ net'[i].sent # net[i].sent =>
                  /\ calls[i].st = "Validated"
                  /\ calls'[i].st = "Executing"
                  /\ net'[i].sent = 1
            /\ net'[i].st = "settled" /\ net[i].st # "settled" => calls[i].st = "Executing"
            /\ (calls'[i].st = "Responded" /\ calls[i].st # "Responded") =>
                  /\ net[i].st = "settled"
                  /\ net[i].reply.kind = "response"]_vars
    /\ [](\A i \in 1..MaxCalls :
            /\ net[i].st # "idle" => calls[i].ran /\ calls[i].raw = Gone
            /\ calls[i].st = "Responded" => net[i].st = "settled" /\ net[i].sent = 1)

\* an invocation has gone through every step and been answered with a result
C9_Witness ==
    \E i \in 1..MaxCalls :
       /\ calls[i].st = "Responded"
       /\ calls[i].ran
       /\ net[i].st = "settled"
       /\ net[i].sent = 1
       /\ Frame(i, FALSE) \in stdout

FatalLine == [frame |-> "text", text |-> "Fatal error in main():"]

\* C11: when server.connect rejects at startup, the process writes its
\* diagnostic to standard error and exits with status 1; when it resolves, the
\* process stays up with the transport open whatever the tool invocations come
\* to, and writes no fatal diagnostic.
C11_StartupFailureExits ==
    /\ transport = "failed" =>
          /\ phase = "exited"
          /\ exitCode = <<1>>
          /\ FatalLine \in stderr
          /\ stdout = {}
    /\ transport = "open" =>
          /\ phase = "running"
          /\ exitCode = <<>>
          /\ FatalLine \notin stderr
    /\ transport = "closed" => phase = "starting" /\ exitCode = <<>>

\* server.connect has rejected and the process has exited with status 1
C11_Witness ==
    /\ transport = "failed"
    /\ phase = "exited"
    /\ exitCode = <<1>>
    /\ FatalLine \in stderr

\* invocation i failed in its handler: for its precondition, the credential,
\* a network failure, a non-2xx reply or a body that is not JSON
FailedInHandler(i) == calls[i].st = "Failed" /\ calls[i].ran

\* nothing but invocation i has happened since the server started
OnlyCall(i) ==
    /\ listed = <<>>
    /\ \A j \in 1..MaxCalls \ {i} : calls[j].st = "idle"

\* C12: an error raised by a handler becomes an error reply to the host and
\* the process stays up with its transport open; right after a failed
\* invocation the server takes a tools/list request and a further invocation.
C12_HandlerErrorsAnswered ==
    \A i \in 1..MaxCalls :
       FailedInHandler(i) =>
          /\ calls[i].out.kind = "error"
          /\ calls[i].nresp = 1
          /\ Frame(i, TRUE) \in stdout
          /\ Frame(i, FALSE) \notin stdout
          /\ phase = "running"
          /\ transport = "open"
          /\ exitCode = <<>>
          /\ (OnlyCall(i) /\ scenario = "concurrent") =>
                /\ ENABLED ListTools
                /\ \A j \in 1..MaxCalls \ {i} : ENABLED Receive(j)

\* one invocation failed on a network failure, and the server has answered
\* another invocation with a result and a listing request
C12_Witness ==
    \E i, j \in 1..MaxCalls :
       /\ FailedInHandler(i)
       /\ net[i].st = "settled"
       /\ net[i].reply = Rejected
       /\ calls[j].st = "Responded"
       /\ Len(listed) = 1

\* the exchange of invocation i ended in a network failure, a status outside
\* 200..299 or a 2xx body that is not JSON
UpstreamFailed(i) ==
    /\ net[i].st = "settled"
    /\ \/ net[i].reply = Rejected
       \/ NonOkReply(i)
       \/ net[i].reply.kind = "response" /\ net[i].reply.body.kind # "json"

\* C13: an invocation calls fetch() at most once: after a network failure, a
\* non-2xx reply or an unparseable body the request is not sent again, and an
\* invocation that fails validation, its precondition or the credential check
\* sends none.
C13_AtMostOneRequest ==
    \A i \in 1..MaxCalls :
       /\ net[i].sent <= 1
       /\ net[i].sent = IF net[i].st = "idle" THEN 0 ELSE 1
       /\ (UpstreamFailed(i) /\ calls[i].st = "Failed") => net[i].sent = 1
       /\ (calls[i].st = "Failed"
             /\ (~calls[i].ran \/ IsPreconditionError(calls[i].out)
                               \/ IsCredentialError(calls[i].out)))
            => net[i].sent = 0 /\ net[i].st = "idle"

\* one invocation failed on a non-2xx reply after its one request, another
\* failed its precondition without a request
C13_Witness ==
    \E i, j \in 1..MaxCalls :
       /\ calls[i].st = "Failed"
       /\ NonOkReply(i)
       /\ net[i].sent = 1
       /\ calls[j].st = "Failed"
       /\ IsPreconditionError(calls[j].out)
       /\ net[j].sent = 0

\* C14: the tools the server holds are the ones registered at startup, with
\* their schemas, whatever listing requests and invocations have happened, and
\* an answered invocation leaves neither its validated input nor its outbound
\* request behind.
C14_RegistryFixed ==
    /\ registered = ToolNames(build)
    /\ \A n \in 1..Len(listed) : listed[n] = Listing(build, ToolNames(build))
    /\ \A i \in 1..MaxCalls :
          Answered(i) => calls[i].input = Gone /\ net[i].req = Gone

\* the tools were listed by a server that has answered one invocation with a
\* result and refused another in its handler before any request
C14_Witness ==
    /\ Len(listed) = 1
    /\ \E i, j \in 1..MaxCalls :
          /\ calls[i].st = "Responded"
          /\ calls[j].st = "Failed"
          /\ calls[j].ran
          /\ net[j].st = "idle"

\* C15: a request in flight carries "Bearer " and the value DUMPLING_API_KEY
\* has in the environment during that invocation, also after the variable was
\* given another value between two invocations; no step of a handler changes
\* the variable.
C15_CredentialReadPerCall ==
    /\ [][apiKey' # apiKey => calls' = calls /\ net' = net]_vars
    /\ [](\A i \in 1..MaxCalls :
            net[i].st = "inflight" =>
               /\ Truthy(apiKey)
               /\ net[i].req.headers.Authorization = "Bearer " \o apiKey.s)

\* an invocation was answered with a result, the variable was then given a new
\* value, and the request of the next invocation carries the new value
C15_Witness ==
    \E i, j \in 1..MaxCalls :
       /\ calls[i].st = "Responded"
       /\ net[j].st = "inflight"
       /\ apiKey = Str("sk-rotated")
       /\ net[j].req.headers.Authorization = "Bearer sk-rotated"

\* the upstream answered invocation i with a 2xx status and a body that is
\* not JSON
NonJsonOkReply(i) ==
    /\ net[i].st = "settled"
    /\ net[i].reply.kind = "response"
    /\ ResponseOk(net[i].reply)
    /\ net[i].reply.body.kind = "text"

\* C16: when the upstream answers with a 2xx status and a body that is not
\* valid JSON, the invocation fails, no result is returned, and the error
\* carries the status code and the raw body text.
C16_NonJsonBodySurfaced ==
    \A i \in 1..MaxCalls :
       (NonJsonOkReply(i) /\ Answered(i))
          => /\ calls[i].st = "Failed"
             /\ calls[i].out.kind = "error"
             /\ Frame(i, FALSE) \notin stdout
             /\ Lit(NumToStr(net[i].reply.status)) \in Elements(calls[i].out.message)
             /\ BodyText(net[i].reply.body) \in Elements(calls[i].out.message)

PreviewTools ==
    {"screenshot", "convert-to-pdf", "merge-pdfs", "trim-video",
     "write-pdf-metadata", "generate-ai-image", "generate-image"}

\* p is the preview of the base64 string s: its first 100 characters, or all
\* of it when it is shorter, followed by "..."
IsPreviewOf(p, s) ==
    /\ p.k = "string"
    /\ Len(p.s) <= PreviewLen + 3
    /\ \E n \in 0..PreviewLen :
          /\ n = Len(s) \/ (n = PreviewLen /\ Len(s) > PreviewLen)
          /\ p.s = SubSeq(s, 1, n) \o "..."

\* C17: in the result of a tool that previews base64 payloads, the field that
\* carries a payload (a base64 string that is not empty) is the payload's
\* first 100 characters (all of it when it is shorter) followed by "...",
\* never more than 103 characters.
C17_Base64Preview ==
    \A i \in 1..MaxCalls :
       (calls[i].st = "Responded" /\ calls[i].tool \in PreviewTools)
          => LET doc == net[i].reply.body.doc
                 res == calls[i].out.content[1].text
                 sh  == DocShape(ToolDef(build, calls[i].tool))
             IN  \A n \in 1..Len(sh) :
                    LET raw == Prop(doc, sh[n].from)
                        out == Prop(res.value, sh[n].key)
                    IN  /\ (sh[n].op \in {"trunc", "truncOrNull"} /\ raw.k = "string"
                               /\ raw.s # "")
                              => IsPreviewOf(out, raw.s)
                        /\ (sh[n].op = "images" /\ raw.k = "array")
                              => /\ out.k = "array"
                                 /\ Len(out.a) = Len(raw.a)
                                 /\ \A m \in 1..Len(raw.a) :
                                       IsPreviewOf(Prop(out.a[m], "imageBase64"), raw.a[m].s)

\* the tool of invocation i has no shaper of its own in the running revision
Unshaped(i) ==
    /\ calls[i].tool \in registered
    /\ ToolDef(build, calls[i].tool).shaper = "whole"

\* C18: the result of a tool without a shaper of its own is the whole upstream
\* JSON document, serialised with an indentation of 2: the value that is
\* serialised is the document itself, with no property added, dropped, renamed
\* or shortened.
C18_WholeDocumentReturned ==
    \A i \in 1..MaxCalls :
       (calls[i].st = "Responded" /\ Unshaped(i))
          => /\ Len(calls[i].out.content) = 1
             /\ calls[i].out.content[1].type = "text"
             /\ calls[i].out.content[1].text.fmt = "json"
             /\ calls[i].out.content[1].text.indent = 2
             /\ calls[i].out.content[1].text.value = net[i].reply.body.doc

\* in a revision that shapes the results of other tools, a tool without a
\* shaper has returned a document that carries a usage counter
C18_Witness ==
    \E i \in 1..MaxCalls :
       /\ build = "part_001"
       /\ calls[i].st = "Responded"
       /\ Unshaped(i)
       /\ net[i].reply.body.doc.k = "object"
       /\ "creditUsage" \in DOMAIN net[i].reply.body.doc.o
       /\ calls[i].out.content[1].text.value = net[i].reply.body.doc

\* the parameters a tool declares with .default(...)
Defaulted(t) == {f \in DOMAIN t.schema.shape : t.schema.shape[f].t = "default"}

\* the properties of the request body that forward parameter f
Forwards(t, f) ==
    {t.body[n].key : n \in {m \in 1..Len(t.body) :
                               t.body[m].src = "arg" /\ t.body[m].arg = f}}

\* C19: a parameter declared with a default and left out by the caller has
\* the default in the validated input and in the request body; a value the
\* caller gave is kept and is what the body carries.
C19_DefaultsSubstituted ==
    [][\A i \in 1..MaxCalls :
         LET t == ToolDef(build, calls[i].tool)
         IN  /\ (calls[i].st = "Received" /\ calls'[i].st = "Validated") =>
                   \A f \in Defaulted(t) :
                      Prop(calls'[i].input, f) =
                         IF Prop(calls[i].raw, f).k = "undefined"
                         THEN t.schema.shape[f].def
                         ELSE Prop(calls[i].raw, f)
             /\ (calls[i].st = "Validated" /\ calls'[i].st = "Executing") =>
                   \A f \in Defaulted(t) :
                      /\ Prop(calls[i].input, f).k # "undefined"
                      /\ Forwards(t, f) # {}
                      /\ \A key \in Forwards(t, f) :
                            Prop(net'[i].req.body.value, key) = Prop(calls[i].input, f)]_vars

\* the first revision has sent the request of a crawl whose caller gave only
\* the url: the body carries limit 5, depth 2 and format "markdown"
C19_Witness ==
    \E i \in 1..MaxCalls :
       /\ calls[i].tool = "crawl"
       /\ net[i].st = "inflight"
       /\ Prop(net[i].req.body.value, "limit") = Num(5)
       /\ Prop(net[i].req.body.value, "depth") = Num(2)
       /\ Prop(net[i].req.body.value, "format") = Str("markdown")

IsUnknownToolError(out, tool) ==
    /\ out.kind = "error"
    /\ out.name = "McpError"
    /\ out.message = <<Lit("Tool "), Lit(tool), Lit(" not found")>>

\* C20: an invocation that names a tool the server does not hold is answered
\* with the unknown-tool error, whatever the credential is: no handler runs
\* for it and no HTTP request is made.
C20_UnknownToolRejected ==
    \A i \in 1..MaxCalls :
       (calls[i].st \notin {"idle", "Received"} /\ calls[i].tool \notin registered)
          => /\ calls[i].st = "Failed"
             /\ IsUnknownToolError(calls[i].out, calls[i].tool)
             /\ calls[i].nresp = 1
             /\ Frame(i, TRUE) \in stdout
             /\ Frame(i, FALSE) \notin stdout
             /\ ~calls[i].ran
             /\ calls[i].input = Gone
             /\ net[i] = IdleNet

\* a server without a credential has answered a call of a tool it does not
\* hold
C20_Witness ==
    \E i \in 1..MaxCalls :
       /\ ~Truthy(apiKey)
       /\ calls[i].tool = "no-such-tool"
       /\ calls[i].st = "Failed"
       /\ IsUnknownToolError(calls[i].out, "no-such-tool")

\* v is a number of milliseconds within 0..5000
InWaitRange(v) == v.k = "number" /\ v.n >= 0 /\ v.n <= 5000

\* C22: the screenshot tool forwards under waitFor the caller's wait, or 0
\* when wait is left out, always a number within 0..5000; a wait below 0 or
\* above 5000 is rejected by validation and no request is made.
C22_ScreenshotWait ==
    [][\A i \in 1..MaxCalls :
         calls[i].tool = "screenshot" =>
            /\ (calls[i].st = "Received" /\ calls'[i].st = "Validated") =>
                  Prop(calls'[i].input, "wait") =
                     IF Prop(calls[i].raw, "wait").k = "undefined"
                     THEN Num(0)
                     ELSE Prop(calls[i].raw, "wait")
            /\ (calls[i].st = "Received" /\ calls'[i] # calls[i]
                  /\ Prop(calls[i].raw, "wait").k = "number"
                  /\ ~InWaitRange(Prop(calls[i].raw, "wait"))) =>
                  /\ calls'[i].st = "Failed"
                  /\ IsValidationError(calls'[i].out)
                  /\ net' = net
            /\ (calls[i].st = "Validated" /\ calls'[i].st = "Executing") =>
                  /\ InWaitRange(Prop(net'[i].req.body.value, "waitFor"))
                  /\ Prop(net'[i].req.body.value, "waitFor") = Prop(calls[i].input, "wait")]_vars

\* C23: a handler with a 'one of' requirement checks it before it reads the
\* credential: with no alternative that counts and the credential unset the
\* error is the precondition error, and the missing-credential error is
\* reported only for an invocation whose precondition holds.
C23_PreconditionBeforeCredential ==
    [][\A i \in 1..MaxCalls :
         (calls[i].st = "Validated" /\ HasAlternatives(i) /\ calls'[i] # calls[i])
            => /\ (NonEmpty(i) = {} /\ ~Truthy(apiKey)) =>
                     /\ calls'[i].st = "Failed"
                     /\ IsPreconditionError(calls'[i].out)
                     /\ ~IsCredentialError(calls'[i].out)
               /\ (calls'[i].st = "Failed" /\ IsCredentialError(calls'[i].out)) =>
                     /\ NonEmpty(i) # {}
                     /\ ~Truthy(apiKey)]_vars

\* without a credential, the handler of a tool with a 'one of' requirement
\* has reported its precondition error
C23_Witness ==
    \E i \in 1..MaxCalls :
       /\ ~Truthy(apiKey)
       /\ HasAlternatives(i)
       /\ calls[i].st = "Failed"
       /\ calls[i].ran
       /\ IsPreconditionError(calls[i].out)
       /\ ~IsCredentialError(calls[i].out)

\* C24: an alternative supplied as an empty string (or, for merge-pdfs, an
\* empty array) counts as not supplied: an invocation whose supplied
\* alternatives are all empty fails with the precondition error and makes no
\* request.
C24_EmptyCountsAsAbsent ==
    [][\A i \in 1..MaxCalls :
         (calls[i].st = "Validated" /\ HasAlternatives(i) /\ calls'[i] # calls[i]
            /\ Supplied(i) # {}
            /\ \A a \in Supplied(i) : Prop(calls[i].input, a) \in {Str(""), Arr(<<>>)})
            => /\ calls'[i].st = "Failed"
               /\ IsPreconditionError(calls'[i].out)
               /\ calls'[i].nresp = 1
               /\ net' = net
               /\ net[i] = IdleNet]_vars

\* validation has passed an invocation, made with a credential, whose
\* alternatives are all supplied and all empty
C24_Witness ==
    \E i \in 1..MaxCalls :
       /\ Truthy(apiKey)
       /\ calls[i].st = "Validated"
       /\ HasAlternatives(i)
       /\ Cardinality(Supplied(i)) >= 2
       /\ \A a \in Supplied(i) : Prop(calls[i].input, a) \in {Str(""), Arr(<<>>)}

\* C25: the 'one of' requirement is inclusive: with more than one alternative
\* supplied (and the credential set) the invocation is not refused, its
\* request is issued, and the body carries every supplied alternative
\* unchanged.
C25_OneOfIsInclusive ==
    [][\A i \in 1..MaxCalls :
         (calls[i].st = "Validated" /\ HasAlternatives(i) /\ calls'[i] # calls[i]
            /\ Cardinality(NonEmpty(i)) >= 2 /\ Truthy(apiKey))
            => /\ Issues(i)
               /\ \A a \in Supplied(i) :
                     /\ Forwards(ToolDef(build, calls[i].tool), a) # {}
                     /\ \A key \in Forwards(ToolDef(build, calls[i].tool), a) :
                           Prop(net'[i].req.body.value, key) = Prop(calls[i].input, a)]_vars

\* the request of an invocation that supplied its first two alternatives is
\* in flight and carries both
C25_Witness ==
    \E i \in 1..MaxCalls :
       /\ HasAlternatives(i)
       /\ net[i].st = "inflight"
       /\ \A n \in 1..2 :
             \E key \in Forwards(ToolDef(build, calls[i].tool),
                                 ToolDef(build, calls[i].tool).alts[n]) :
                Truthy(Prop(net[i].req.body.value, key))

\* the result of invocation i has property key, with the raw value
Included(i, key, raw) ==
    LET res == calls[i].out.content[1].text
    IN  /\ res.fmt = "json"
        /\ res.value.k = "object"
        /\ key \in DOMAIN res.value.o
        /\ res.value.o[key] = raw

Omitted(i, key) ==
    LET res == calls[i].out.content[1].text
    IN  /\ res.fmt = "json"
        /\ res.value.k = "object"
        /\ key \notin DOMAIN res.value.o

\* scrapeOutput as the interface SearchResultItem declares it: absent, or an
\* object that carries content (a falsy value stands for an absent one)
WellFormed(so) == ~Truthy(so) \/ Prop(so, "content").k # "undefined"

\* C26: a conditional section of a result (search: featuredSnippet,
\* relatedSearches, peopleAlsoAsk and the content of each entry; extract-audio:
\* segments) is in the result exactly when its raw value is truthy: a null,
\* false, 0 or "" is left out like an absent one, an empty array or object is
\* kept.
C26_ConditionalSections ==
    \A i \in 1..MaxCalls :
       (calls[i].st = "Responded" /\ calls[i].tool \in {"search", "extract-audio"})
          => LET doc == net[i].reply.body.doc
                 sh  == DocShape(ToolDef(build, calls[i].tool))
             IN  /\ \A n \in 1..Len(sh) :
                       sh[n].op = "cond" =>
                          IF Truthy(Prop(doc, sh[n].from))
                          THEN Included(i, sh[n].key, Prop(doc, sh[n].from))
                          ELSE Omitted(i, sh[n].key)
                 /\ \A n \in 1..Len(sh) :
                       (sh[n].op = "organic" /\ Prop(doc, sh[n].from).k = "array") =>
                          LET raw == Prop(doc, sh[n].from).a
                              out == Prop(calls[i].out.content[1].text.value, sh[n].key)
                          IN  /\ out.k = "array"
                              /\ Len(out.a) = Len(raw)
                              /\ \A m \in 1..Len(raw) :
                                    WellFormed(Prop(raw[m], "scrapeOutput")) =>
                                       (Truthy(Prop(raw[m], "scrapeOutput"))
                                          <=> Prop(out.a[m], "content").k # "undefined")

\* the properties of the upstream document that the shaper of tool name
\* dereferences unconditionally (.map(...), .substring(...))
Dereferenced(name) ==
    LET sh == DocShape(ToolDef(build, name))
    IN  {sh[n].from : n \in {m \in 1..Len(sh) : sh[m].op \in {"trunc", "organic", "images"}}}

DereferencingTools == {"search", "screenshot", "generate-ai-image", "generate-image"}

\* the upstream answered invocation i with a 2xx status and a JSON object that
\* lacks a property its shaper dereferences
LacksDereferenced(i) ==
    /\ calls[i].tool \in DereferencingTools \cap registered
    /\ net[i].st = "settled"
    /\ net[i].reply.kind = "response"
    /\ ResponseOk(net[i].reply)
    /\ net[i].reply.body.kind = "json"
    /\ net[i].reply.body.doc.k = "object"
    /\ \E f \in Dereferenced(calls[i].tool) : f \notin DOMAIN net[i].reply.body.doc.o

\* C27: when the upstream answers search, screenshot, generate-ai-image or
\* generate-image with a 2xx JSON document that lacks the field the shaper
\* dereferences (organic, imageBase64, images), the invocation ends as a
\* failure: no result is returned, and the process keeps running.
C27_MissingFieldFails ==
    \A i \in 1..MaxCalls :
       (LacksDereferenced(i) /\ Answered(i))
          => /\ calls[i].st = "Failed"
             /\ calls[i].out.kind = "error"
             /\ Frame(i, FALSE) \notin stdout
             /\ phase = "running"
             /\ exitCode = <<>>

NullingTools == {"convert-to-pdf", "merge-pdfs", "trim-video", "write-pdf-metadata"}

\* the base64 properties of the documents of tool name
Base64Fields(name) ==
    LET sh == DocShape(ToolDef(build, name))
    IN  {n \in 1..Len(sh) : sh[n].op = "truncOrNull"}

\* the upstream answered invocation i with a 2xx status and a JSON object
OkObjectReply(i) ==
    /\ net[i].st = "settled"
    /\ net[i].reply.kind = "response"
    /\ ResponseOk(net[i].reply)
    /\ net[i].reply.body.kind = "json"
    /\ net[i].reply.body.doc.k = "object"

\* C28: when the upstream answers convert-to-pdf, merge-pdfs, trim-video or
\* write-pdf-metadata with a 2xx document whose base64 field (pdfBase64,
\* mergedPdfBase64, outputBase64) is absent or the empty string, the invocation
\* succeeds and its result carries that field with the value null: the field
\* is neither left out nor a string.
C28_EmptyPayloadIsNull ==
    \A i \in 1..MaxCalls :
       (calls[i].tool \in NullingTools \cap registered /\ OkObjectReply(i) /\ Answered(i))
          => LET doc == net[i].reply.body.doc
                 sh  == DocShape(ToolDef(build, calls[i].tool))
             IN  \A n \in Base64Fields(calls[i].tool) :
                    Prop(doc, sh[n].from) \in {Undef, Str("")}
                       => /\ calls[i].st = "Responded"
                          /\ calls[i].out.content[1].text.value.k = "object"
                          /\ sh[n].key \in DOMAIN calls[i].out.content[1].text.value.o
                          /\ calls[i].out.content[1].text.value.o[sh[n].key] = Null

MappingTools == {"search", "generate-ai-image", "generate-image"}

\* entry out of a result was made from element raw of the upstream array
\* (position m, counted from 1) by the mapping of kind op
MadeFrom(op, out, raw, m) ==
    IF op = "organic"
    THEN \A f \in {"title", "link", "snippet", "position"} : Prop(out, f) = Prop(raw, f)
    ELSE /\ Prop(out, "imageIndex") = Num(m - 1)
         /\ raw.k = "string"
         /\ IsPreviewOf(Prop(out, "imageBase64"), raw.s)

\* C29: a result made by mapping over an array of the upstream document keeps
\* the array's length and order: organicResults of search has one entry per
\* element of organic, in the same order, and images of generate-ai-image and
\* generate-image has one entry per image, whose imageIndex is the image's
\* position counted from 0.
C29_MappingKeepsOrder ==
    \A i \in 1..MaxCalls :
       (calls[i].st = "Responded" /\ calls[i].tool \in MappingTools)
          => LET doc == net[i].reply.body.doc
                 res == calls[i].out.content[1].text.value
                 sh  == DocShape(ToolDef(build, calls[i].tool))
             IN  \A n \in 1..Len(sh) :
                    (sh[n].op \in {"organic", "images"} /\ Prop(doc, sh[n].from).k = "array")
                       => LET raw == Prop(doc, sh[n].from).a
                              out == Prop(res, sh[n].key)
                          IN  /\ out.k = "array"
                              /\ Len(out.a) = Len(raw)
                              /\ \A m \in 1..Len(raw) : MadeFrom(sh[n].op, out.a[m], raw[m], m)

\* C30: extract-image forwards the first element of its validated images
\* array, and nothing else of it, under the single property image of the
\* request body; when the array is empty the request is made all the same
\* and its body has no image property.
C30_FirstImageOnly ==
    [][\A i \in 1..MaxCalls :
         (calls[i].tool = "extract-image" /\ calls[i].st = "Validated") =>
            LET imgs == Prop(calls[i].input, "images")
            IN  /\ calls'[i].st = "Executing" =>
                      /\ imgs.k = "array"
                      /\ "images" \notin DOMAIN net'[i].req.body.value.o
                      /\ IF Len(imgs.a) = 0
                         THEN "image" \notin DOMAIN net'[i].req.body.value.o
                         ELSE Prop(net'[i].req.body.value, "image") = imgs.a[1]
                /\ (imgs = Arr(<<>>) /\ Truthy(apiKey) /\ calls'[i] # calls[i]) =>
                      /\ calls'[i].st = "Executing"
                      /\ net'[i].st = "inflight"]_vars

====
